---- MODULE Spec2Model ----
(***************************************************************************)
(* Model of wiz.ts: discovery of one Wiz bulb by MAC (broadcast raced      *)
(* against a batched subnet scan), the cached-address guard requireBulbIp, *)
(* the bounded retry loop sendWithRetry and the preset command.            *)
(*                                                                         *)
(* JavaScript scheduling: a timer or socket callback is one macrotask; the *)
(* promise reactions it triggers (await continuations, .then/.catch) are   *)
(* microtasks that all run before the next macrotask.  Callbacks are the   *)
(* actions below; every macrotask action is guarded by ~MicrotaskPending.  *)
(***************************************************************************)
EXTENDS Integers, Sequences, FiniteSets, TLC

\* ---- bounds ----
\* hosts base.1 .. base.LastHost are scanned (254 in the program)
LastHost == 5
\* scaled SUBNET_BATCH_SIZE (50 in the program)
BatchSize == 2
\* largest `retries` argument tried on sendWithRetry
MaxRetriesArg == 4
\* most replies without the target identifier one broadcast window receives
MaxIgnored == 2
\* most events that reach the handlers of one send after it has settled
MaxLate == 2

\* ---- program constants ----
SUBNET_BATCH_SIZE == 50
MAX_RETRIES == 3
RETRY_DELAY_MS == 500

Hosts == 1..LastHost
\* every last byte the scan loop could reach: the hosts, the network address
\* base.0 and the broadcast address (base.255 in the program)
Addrs == 0..(LastHost + 1)
\* address 0 stands for "no address" (WIZ_IP unset, nothing resolved)
NoAddr == 0
\* an optional numeric field that is not present in an object
Absent == 0 - 1

VARIABLES
    \* process.env and the machine's surroundings
    WIZ_IP, WIZ_SKIP_BROADCAST, iface, bulbHost, network, argv, cmd,
    \* main flow (cmdAnimatedPreset / requireBulbIp) and its results; payload is
    \* the params member of the setPilot command the operation builds
    pc, cachedIp, cacheProbe, ip, usedSubnetScan, outcome, exitCode, verified, snap, saveEnvCalls, payload,
    \* send: the exchange in flight; sendRun holds the locals of the call (done,
    \* timer, sock) and counts what its handlers did
    sendPc, sendOwner, sendMethod, sendTo, sendRes, sendErr, datagrams, sendRun,
    \* sendWithRetry
    swrPc, swrI, swrRetries, swrLastErr, swrResp, swrSends, slept, setPilotSends,
    \* discoverByMac
    dbmPc, settled, failures, rejectCalls, dbmIp, dbmUsedScan, graceTimer,
    \* discoverByBroadcast; bcIgnored counts the replies it discarded
    bcSock, bcDone, bcBound, bcTimer, reTimer, bcSent, bcIgnored,
    \* discoverBySubnetScan; found is the Map of discoverAllSubnetScan
    scanPc, scanOwner, found, scanS, probe, scanRes,
    \* observations about the race; progressArg is the last number passed to
    \* onProgress
    lateProgress, lateSockets, bcMatch, scanBatches, progressCalls, progressArg

vars == << WIZ_IP, WIZ_SKIP_BROADCAST, iface, bulbHost, network, argv, cmd,
           pc, cachedIp, cacheProbe, ip, usedSubnetScan, outcome, exitCode, verified, snap, saveEnvCalls, payload,
           sendPc, sendOwner, sendMethod, sendTo, sendRes, sendErr, datagrams, sendRun,
           swrPc, swrI, swrRetries, swrLastErr, swrResp, swrSends, slept, setPilotSends,
           dbmPc, settled, failures, rejectCalls, dbmIp, dbmUsedScan, graceTimer,
           bcSock, bcDone, bcBound, bcTimer, reTimer, bcSent, bcIgnored,
           scanPc, scanOwner, found, scanS, probe, scanRes,
           lateProgress, lateSockets, bcMatch, scanBatches, progressCalls, progressArg >>

envVars  == << WIZ_IP, WIZ_SKIP_BROADCAST, iface, bulbHost, network, argv, cmd >>
mainVars == << pc, cachedIp, cacheProbe, ip, usedSubnetScan, outcome, exitCode, verified, snap, saveEnvCalls, payload >>
sendVars == << sendPc, sendOwner, sendMethod, sendTo, sendRes, sendErr, datagrams, sendRun >>
swrVars  == << swrPc, swrI, swrRetries, swrLastErr, swrResp, swrSends, slept, setPilotSends >>
dbmVars  == << dbmPc, settled, failures, rejectCalls, dbmIp, dbmUsedScan, graceTimer >>
bcVars   == << bcSock, bcDone, bcBound, bcTimer, reTimer, bcSent, bcIgnored >>
scanVars == << scanPc, scanOwner, found, scanS, probe, scanRes >>
obsVars  == << lateProgress, lateSockets, bcMatch, scanBatches, progressCalls, progressArg >>

Min(a, b) == IF a < b THEN a ELSE b

\* ---- MODES and parseArgs ----

\* WizPilotParams; a field that is not sent is Absent
Params(state, dimming, temp, r, g, b, w, c) ==
    [state |-> state, dimming |-> dimming, temp |-> temp,
     r |-> r, g |-> g, b |-> b, w |-> w, c |-> c]

\* the built-in entries of MODES: their params
MODES(name) ==
    CASE name = "movie" -> Params(TRUE, 1, 2200, Absent, Absent, Absent, Absent, Absent)
      [] name = "chill" -> Params(TRUE, 40, 2700, Absent, Absent, Absent, Absent, Absent)
      [] name = "day"   -> Params(TRUE, 100, 5000, Absent, Absent, Absent, Absent, Absent)

\* variant: the brightness comparisons are five wider than in the program
ModeVerify_wide(name, s) ==
    CASE name = "movie"  -> s.state = TRUE /\ s.dimming # Absent /\ s.dimming <= 7 /\ s.temp = 2200
      [] name = "chill"  -> s.state = TRUE /\ s.dimming # Absent /\ s.dimming >= 33 /\ s.dimming <= 47
                            /\ s.temp = 2700
      [] name = "day"    -> s.state = TRUE /\ s.dimming # Absent /\ s.dimming >= 93 /\ s.temp = 5000
      [] name = "custom" -> s.state = TRUE

\* the verify closure of a MODES entry, applied to a getPilot result s;
\* a comparison with a missing (undefined) field is false
ModeVerify(name, s) ==
    CASE name = "movie"  -> s.state = TRUE /\ s.dimming # Absent /\ s.dimming <= 2 /\ s.temp = 2200
      [] name = "chill"  -> s.state = TRUE /\ s.dimming # Absent /\ s.dimming >= 38 /\ s.dimming <= 42
                            /\ s.temp = 2700
      [] name = "day"    -> s.state = TRUE /\ s.dimming # Absent /\ s.dimming >= 98 /\ s.temp = 5000
      [] name = "custom" -> s.state = TRUE

NoColor == << >>

\* what parseInt yields for a token that does not start with a number
NaN == 0 - 2

\* no setPilot command has been built; a built one is << its params >>
NoPayload == << >>

\* the hex token as its sequence of characters, each a digit value 0..15, or
\* NotHex for a character that is no hex digit
NotHex == 16

\* a three-character color is doubled, character by character
HexNormal(h) == IF Len(h) = 3 THEN << h[1], h[1], h[2], h[2], h[3], h[3] >> ELSE h

\* the color check of parseArgs: process.exit(1) unless six hex digits
HexAccepted(a) ==
    \/ a.hexColor = NoColor
    \/ /\ Len(HexNormal(a.hexColor)) = 6
       /\ \A i \in 1..6 : HexNormal(a.hexColor)[i] \in 0..15

\* parseInt(hexColor.slice(i - 1, i + 1), 16)
HexByte(h, i) == h[i] * 16 + h[i + 1]

\* variant: the lower bound of the brightness check is 0
BrightnessAccepted_from0(a) ==
    a.brightness = Absent \/ (a.brightness # NaN /\ a.brightness >= 0 /\ a.brightness <= 100)

\* the brightness check of parseArgs: process.exit(1) unless 1..100
BrightnessAccepted(a) ==
    a.brightness = Absent \/ (a.brightness # NaN /\ a.brightness >= 1 /\ a.brightness <= 100)

\* variant: a color command without the two white-channel fields
ColorParams_noWhite(dim, r, g, b) == Params(TRUE, dim, Absent, r, g, b, Absent, Absent)

\* params of a custom color: state, dimming, then r, g, b, w = 0, c = 0
ColorParams(dim, r, g, b) == Params(TRUE, dim, Absent, r, g, b, 0, 0)

\* parseArgs after the token loop and its two checks: a = [modeName, hexColor,
\* brightness].  Yields the mode the command will run: its name, the params to
\* send and the name of the entry whose verify is kept.
parseArgs(a) ==
    IF a.modeName = "none" /\ (a.hexColor # NoColor \/ a.brightness # Absent)
    THEN LET dim == IF a.brightness # Absent THEN a.brightness ELSE 100
             hex == HexNormal(a.hexColor)
         IN  [modeName |-> "custom",
              params |-> IF a.hexColor # NoColor
                         THEN ColorParams(dim, HexByte(hex, 1), HexByte(hex, 3), HexByte(hex, 5))
                         ELSE Params(TRUE, dim, Absent, Absent, Absent, Absent, Absent, Absent),
              verify |-> "custom"]
    ELSE IF a.modeName # "none" /\ a.brightness # Absent
    THEN [modeName |-> a.modeName,
          params |-> [MODES(a.modeName) EXCEPT !.dimming = a.brightness],
          verify |-> a.modeName]
    ELSE IF a.modeName # "none"
    THEN [modeName |-> a.modeName, params |-> MODES(a.modeName), verify |-> a.modeName]
    ELSE [modeName |-> "none", params |-> Params(TRUE, Absent, Absent, Absent, Absent, Absent, Absent, Absent),
          verify |-> "none"]

\* ---- replies ----

Reply(kind, mac, success, state, dimming, temp) ==
    [kind |-> kind, mac |-> mac, success |-> success,
     state |-> state, dimming |-> dimming, temp |-> temp]

NoReply == Reply("none", "none", "absent", FALSE, Absent, Absent)
\* a JSON object without a result member
EmptyReply == Reply("empty", "none", "absent", FALSE, Absent, Absent)

\* a datagram that parses as JSON but not to an object (null): any member
\* access on the parsed value throws a TypeError
NullReply == Reply("null", "none", "absent", FALSE, Absent, Absent)

\* getPilot results the bulb model reports in the command flow
Snapshots ==
    { [state |-> TRUE,  dimming |-> 40, temp |-> 2700],
      [state |-> TRUE,  dimming |-> 55, temp |-> 2700],
      [state |-> TRUE,  dimming |-> 60, temp |-> 2700],
      [state |-> FALSE, dimming |-> 40, temp |-> 2700] }

\* the device at address a carries the target MAC exactly when a is the bulb's host
MacAt(a) == IF a = bulbHost /\ a # NoAddr THEN "target" ELSE "other"

\* parsed replies a device at address a can give to a request
Replies(method, a) ==
    IF method = "setPilot"
    THEN { Reply("ack", "none", sc, FALSE, Absent, Absent) : sc \in {"true", "false", "absent"} }
         \cup { EmptyReply, NullReply }
    ELSE { Reply("pilot", MacAt(a), "absent", s.state, s.dimming, s.temp) : s \in Snapshots }
         \cup { EmptyReply, NullReply }

\* ---- discoverByMac: finish and fail ----

dbmCore == << dbmPc, settled, failures, rejectCalls, dbmIp, dbmUsedScan >>

\* variant: without `if (settled) return`, a later match overwrites the result
finish_always(a, u) ==
    /\ settled' = TRUE
    /\ dbmPc' = IF dbmPc = "running" THEN "resolved" ELSE dbmPc
    /\ dbmIp' = a
    /\ dbmUsedScan' = u
    /\ UNCHANGED << failures, rejectCalls >>

finish(a, u) ==
    IF settled
    THEN UNCHANGED dbmCore
    ELSE /\ settled' = TRUE
         /\ dbmPc' = "resolved"
         /\ dbmIp' = a
         /\ dbmUsedScan' = u
         /\ UNCHANGED << failures, rejectCalls >>

\* variant: NotFound on the first failure
fail_first ==
    /\ failures' = failures + 1
    /\ rejectCalls' = rejectCalls + 1
    /\ dbmPc' = IF dbmPc = "running" THEN "rejected" ELSE dbmPc
    /\ UNCHANGED << settled, dbmIp, dbmUsedScan >>

\* reject() on a promise that is already resolved has no effect
fail ==
    /\ failures' = failures + 1
    /\ IF failures + 1 >= 2
       THEN /\ rejectCalls' = rejectCalls + 1
            /\ dbmPc' = IF dbmPc = "running" THEN "rejected" ELSE dbmPc
       ELSE UNCHANGED << rejectCalls, dbmPc >>
    /\ UNCHANGED << settled, dbmIp, dbmUsedScan >>

\* what the awaiter of the scan does with its outcome: inside discoverByMac the
\* .then(finish)/.catch(fail) reactions; called from requireBulbIp, nothing yet
ScanOutcome(owner, matched, a) ==
    IF owner = "dbm"
    THEN IF matched THEN finish(a, TRUE) ELSE fail
    ELSE UNCHANGED dbmCore

\* ---- discoverBySubnetScan ----

\* for (i = s; i < Math.min(s + batch, limit); i++)
BatchRange(s, batch, limit) == { i \in s..(limit - 1) : i < Min(s + batch, limit) }

\* for (s = 1; s < limit; s += batch)
LoopStarts(batch, limit) == { s \in 1..(limit - 1) : (s - 1) % batch = 0 }

\* variant: the inner loop also reaches the address after the last host
BatchHosts_toLimit(s) == BatchRange(s, BatchSize, LastHost + 2)

\* the addresses of the batch that starts at s (limit 255 in the program)
BatchHosts(s) == BatchRange(s, BatchSize, LastHost + 1)

\* one turn of the batch loop: onProgress(s, 254), then a probe socket per host
IssueBatch(p, s, owner, said) ==
    /\ scanPc' = "running"
    /\ scanS' = s
    /\ probe' = [h \in Addrs |-> IF h \in BatchHosts(s) THEN "pending" ELSE p[h]]
    /\ scanBatches' = scanBatches + 1
    /\ progressCalls' = progressCalls + said + 1
    /\ progressArg' = s
    /\ lateProgress' = (lateProgress \/ (owner = "dbm" /\ settled))
    /\ lateSockets' = (lateSockets \/ (owner = "dbm" /\ settled))
    /\ UNCHANGED scanRes

\* the synchronous head of discoverBySubnetScan, up to its first await; said is
\* the number of progress callbacks the caller made just before the call
ScanStart(owner, said) ==
    /\ scanOwner' = owner
    /\ UNCHANGED found
    /\ IF ~iface
       THEN /\ scanPc' = "nonetwork"
            /\ ScanOutcome(owner, FALSE, NoAddr)
            /\ progressCalls' = progressCalls + said
            /\ UNCHANGED progressArg
            /\ UNCHANGED << scanS, probe, scanRes, scanBatches, lateProgress, lateSockets >>
       ELSE /\ IssueBatch(probe, 1, owner, said)
            /\ UNCHANGED dbmCore

\* variant: the loop goes on as soon as one probe of the batch has settled
BatchSettled_any(p, s) == \E h \in BatchHosts(s) : p[h] # "pending"

\* await Promise.all(probes): every probe of the batch has settled
BatchSettled(p, s) == \A h \in BatchHosts(s) : p[h] # "pending"

\* variant: a match does not end the loop
ReturnsFound_never(hits) == FALSE

\* `if (found) return found`: some probe of the batch resolved with its address
ReturnsFound(hits) == hits # {}

\* variant: the loop ends after its first turn
MoreBatches_none(s) == FALSE

\* s += batch; s < limit: there is a batch after the one that starts at s
MoreBatches(s) == s + BatchSize < LastHost + 1

\* after a probe settled: Promise.all resolves once no probe of the batch is
\* pending; find(Boolean) takes the first hit in probe order
AfterProbe(p) ==
    LET hits == { h \in BatchHosts(scanS) : p[h] = "hit" }
        first == CHOOSE h \in hits : \A g \in hits : h <= g
    IN  IF ~BatchSettled(p, scanS)
        THEN /\ probe' = p
             /\ UNCHANGED << scanPc, scanS, scanRes, scanBatches, progressCalls, progressArg,
                             lateProgress, lateSockets >>
             /\ UNCHANGED dbmCore
        ELSE IF ReturnsFound(hits)
        THEN /\ probe' = p
             /\ scanPc' = "found"
             /\ scanRes' = first
             /\ ScanOutcome(scanOwner, TRUE, first)
             /\ UNCHANGED << scanS, scanBatches, progressCalls, progressArg, lateProgress, lateSockets >>
        ELSE IF MoreBatches(scanS)
        THEN /\ IssueBatch(p, scanS + BatchSize, scanOwner, 0)
             /\ UNCHANGED dbmCore
        ELSE /\ probe' = p
             /\ scanPc' = "notfound"
             /\ ScanOutcome(scanOwner, FALSE, NoAddr)
             /\ UNCHANGED << scanS, scanRes, scanBatches, progressCalls, progressArg,
                             lateProgress, lateSockets >>

\* ---- the event loop ----

Alive == pc # "exited"

\* opts.onStatus: cmdOn and cmdOff call requireBulbIp(mac) without it
onStatus == cmd \notin {"on", "off"}

\* a promise has settled and the continuation awaiting it has not run yet
MicrotaskPending ==
    \/ sendPc \in {"resolved", "rejected"}
    \/ swrPc \in {"returned", "thrown"}
         /\ pc \in {"pre_read", "set_pilot", "verify", "harness_await", "on_off_set"}
    \/ pc = "rbi_returned" /\ ~onStatus
    \/ pc = "rbi_discover" /\ dbmPc \in {"resolved", "rejected"}
    \/ pc = "rbi_scan" /\ scanPc \in {"found", "notfound", "nonetwork"}

Macrotask == Alive /\ ~MicrotaskPending

\* ---- probeIP: the events of one probe socket ----

\* with broadcast suppressed the bulb still answers every unicast probe in time
Answers(h) == h = bulbHost /\ network = "broadcastSuppressed"

ProbeSettle(h, res) ==
    /\ Macrotask
    /\ scanOwner \in {"dbm", "rbi"} /\ probe[h] = "pending"
    /\ AfterProbe([probe EXCEPT ![h] = res])
    /\ UNCHANGED << envVars, mainVars, sendVars, swrVars, graceTimer, bcVars, scanOwner, found, bcMatch >>

\* message handler: a reply naming the target MAC resolves with the probed address
ProbeMatch(h) == h = bulbHost /\ ProbeSettle(h, "hit")

\* message handler: a reply naming another MAC (or none) rejects
ProbeWrongMac(h) == h # bulbHost /\ ProbeSettle(h, "null")

\* message handler: JSON.parse throws
ProbeGarbage(h) == ~Answers(h) /\ ProbeSettle(h, "null")

\* the SUBNET_SCAN_TIMEOUT_MS timer
ProbeTimeout(h) == ~Answers(h) /\ ProbeSettle(h, "null")

\* the socket's error event
ProbeError(h) == ~Answers(h) /\ ProbeSettle(h, "null")

\* ---- discoverAllSubnetScan and probeAny ----

Macs == {"target", "other"}

\* new Map(): no identifier has an address
NoneFound == [m \in Macs |-> NoAddr]

\* the head of discoverAllSubnetScan up to its first await: without an
\* interface the empty Map is returned
ScanAllStart ==
    /\ scanOwner' = "all"
    /\ found' = NoneFound
    /\ IF ~iface
       THEN /\ scanPc' = "done"
            /\ UNCHANGED << scanS, probe, scanRes, scanBatches, progressCalls, progressArg,
                            lateProgress, lateSockets >>
       ELSE IssueBatch(probe, 1, "all", 0)

\* variant: a completion starts the map afresh, dropping what others stored
Stored_afresh(f, r, h) == [m \in Macs |-> IF m = r THEN h ELSE NoAddr]

\* found.set(r.mac, r.ip)
Stored(f, r, h) == [f EXCEPT ![r] = h]

\* after a probeAny settled with result r (a MAC, or "null"): the .then stores
\* a non-null result; once no probe of the batch is pending Promise.all
\* resolves and the loop goes on to the next batch, or returns the Map
AfterProbeAny(h, r) ==
    LET p == [probe EXCEPT ![h] = IF r = "null" THEN "null" ELSE "hit"]
    IN  /\ found' = IF r = "null" THEN found ELSE Stored(found, r, h)
        /\ IF ~BatchSettled(p, scanS)
           THEN /\ probe' = p
                /\ UNCHANGED << scanPc, scanS, scanRes, scanBatches, progressCalls, progressArg,
                                lateProgress, lateSockets >>
           ELSE IF MoreBatches(scanS)
           THEN IssueBatch(p, scanS + BatchSize, scanOwner, 0)
           ELSE /\ probe' = p
                /\ scanPc' = "done"
                /\ UNCHANGED << scanS, scanRes, scanBatches, progressCalls, progressArg,
                                lateProgress, lateSockets >>

AnySettle(h, r) ==
    /\ Macrotask
    /\ scanOwner = "all" /\ probe[h] = "pending"
    /\ AfterProbeAny(h, r)
    /\ UNCHANGED << envVars, mainVars, sendVars, swrVars, dbmVars, bcVars, scanOwner, bcMatch >>

\* message handler: r.result?.mac is there, resolve({ ip, mac })
AnyFound(h) == AnySettle(h, MacAt(h))

\* message handler: a reply without result or mac
AnyNoMac(h) == AnySettle(h, "null")

\* message handler: JSON.parse throws
AnyGarbage(h) == AnySettle(h, "null")

\* the SUBNET_SCAN_TIMEOUT_MS timer
AnyTimeout(h) == AnySettle(h, "null")

\* the socket's error event
AnyError(h) == AnySettle(h, "null")

\* ---- discoverByBroadcast ----

\* the promise executor: socket, DISCOVERY_TIMEOUT_MS timer, handlers, bind()
BroadcastStart ==
    /\ bcSock' = "open"
    /\ bcDone' = FALSE
    /\ bcBound' = FALSE
    /\ bcTimer' = "pending"
    /\ reTimer' = "unset"
    /\ bcSent' = 0
    /\ bcIgnored' = 0

\* bind callback: first probe, and the retransmission timer
BcBind ==
    /\ Macrotask
    /\ bcSock = "open" /\ ~bcBound
    /\ bcBound' = TRUE
    /\ bcSent' = bcSent + 1
    /\ reTimer' = "pending"
    /\ UNCHANGED << bcSock, bcDone, bcTimer, bcIgnored >>
    /\ UNCHANGED << envVars, mainVars, sendVars, swrVars, dbmVars, scanVars, obsVars >>

\* variant: the retransmission does not look at done
Retransmits_always == TRUE

\* `if (!done)` of the 1000 ms timer callback
Retransmits == ~bcDone

\* the 1000 ms timer; it was set after the 500 ms one and so fires after it
BcRetransmit ==
    /\ Macrotask
    /\ reTimer = "pending" /\ graceTimer # "pending"
    /\ reTimer' = "fired"
    /\ bcSent' = IF Retransmits THEN bcSent + 1 ELSE bcSent
    /\ UNCHANGED << bcSock, bcDone, bcBound, bcTimer, bcIgnored >>
    /\ UNCHANGED << envVars, mainVars, sendVars, swrVars, dbmVars, scanVars, obsVars >>

\* the DISCOVERY_TIMEOUT_MS timer; it fires after the 500 ms one
BcTimeout ==
    /\ Macrotask
    /\ bcTimer = "pending" /\ graceTimer # "pending"
    /\ bcTimer' = "fired"
    /\ IF ~bcDone
       THEN bcDone' = TRUE /\ bcSock' = "closed" /\ fail
       ELSE UNCHANGED << bcDone, bcSock >> /\ UNCHANGED dbmCore
    /\ UNCHANGED << bcBound, reTimer, bcSent, bcIgnored, graceTimer >>
    /\ UNCHANGED << envVars, mainVars, sendVars, swrVars, scanVars, obsVars >>

\* the socket's error event
BcError ==
    /\ Macrotask
    /\ bcSock = "open" /\ ~bcDone
    /\ bcDone' = TRUE
    /\ bcTimer' = "cleared"
    /\ bcSock' = "closed"
    /\ fail
    /\ UNCHANGED << bcBound, reTimer, bcSent, bcIgnored, graceTimer >>
    /\ UNCHANGED << envVars, mainVars, sendVars, swrVars, scanVars, obsVars >>

\* message handler, for a reply of the bulb: result.mac === mac
BcMatch ==
    /\ Macrotask
    /\ bcSock = "open" /\ bcBound /\ ~bcDone
    /\ bulbHost # NoAddr /\ network # "broadcastSuppressed"
    /\ bcDone' = TRUE
    /\ bcTimer' = "cleared"
    /\ bcSock' = "closed"
    /\ finish(bulbHost, FALSE)
    /\ bcMatch' = IF graceTimer = "pending" THEN "early" ELSE "late"
    /\ UNCHANGED << bcBound, reTimer, bcSent, bcIgnored, graceTimer >>
    /\ UNCHANGED << envVars, mainVars, sendVars, swrVars, scanVars,
                    lateProgress, lateSockets, scanBatches, progressCalls, progressArg >>

\* variant: a reply that does not name the target fails the discovery
Discarded_rejects ==
    /\ bcDone' = TRUE
    /\ bcTimer' = "cleared"
    /\ bcSock' = "closed"
    /\ fail

\* the message handler falls through: nothing is settled, closed or cleared
Discarded ==
    /\ UNCHANGED << bcDone, bcTimer, bcSock >>
    /\ UNCHANGED dbmCore

BcIgnore ==
    /\ Macrotask
    /\ bcSock = "open" /\ bcBound /\ ~bcDone
    /\ bcIgnored < MaxIgnored
    /\ bcIgnored' = bcIgnored + 1
    /\ Discarded
    /\ UNCHANGED << bcBound, reTimer, bcSent, graceTimer >>
    /\ UNCHANGED << envVars, mainVars, sendVars, swrVars, scanVars, obsVars >>

\* message handler, for a reply of another device: resp.result?.mac !== mac
BcWrongMac == BcIgnore

\* message handler, for a datagram that is no JSON, or JSON null: the catch {}
BcGarbage == BcIgnore

\* ---- discoverByMac ----

\* the promise executor: broadcast at once, the scan behind a 500 ms timer
DbmStart ==
    /\ dbmPc' = "running"
    /\ settled' = FALSE
    /\ failures' = 0
    /\ UNCHANGED << rejectCalls, dbmIp, dbmUsedScan >>
    /\ BroadcastStart
    /\ graceTimer' = "pending"

\* variant: the timer callback starts the scan without looking at settled
ScanSkipped_never == FALSE

\* variant: the scan is also skipped once the broadcast has failed
ScanSkipped_afterFailure == settled \/ failures > 0

\* `if (settled) return` at the head of the 500 ms timer callback
ScanSkipped == settled

\* variant: the callback is invoked before settled is looked at
SaidWhenSkipped_before == TRUE

\* onProgress("scanning subnet...") comes after `if (settled) return`: a
\* skipped scan is not announced
SaidWhenSkipped == FALSE

\* the 500 ms timer callback
GraceTimer ==
    /\ Macrotask
    /\ graceTimer = "pending"
    /\ graceTimer' = "fired"
    /\ IF ScanSkipped
       THEN /\ progressCalls' = IF SaidWhenSkipped THEN progressCalls + 1 ELSE progressCalls
            /\ UNCHANGED << dbmCore, scanVars, lateProgress, lateSockets, scanBatches, progressArg >>
       ELSE ScanStart("dbm", 1)
    /\ UNCHANGED << envVars, mainVars, sendVars, swrVars, bcVars, bcMatch >>

\* the machine loses its interface between getBroadcastAddress() and the scan's
\* own look at networkInterfaces()
InterfaceLost ==
    /\ Macrotask
    /\ iface /\ graceTimer = "pending"
    /\ iface' = FALSE
    /\ UNCHANGED << WIZ_IP, WIZ_SKIP_BROADCAST, bulbHost, network, argv, cmd >>
    /\ UNCHANGED << mainVars, sendVars, swrVars, dbmVars, bcVars, scanVars, obsVars >>

\* ---- send: one exchange ----

\* no call of send yet
NoRun == [done |-> FALSE, timer |-> "unset", sock |-> "none",
          sent |-> 0, closes |-> 0, settles |-> 0, late |-> 0]

\* socket, timer, handlers and sock.send() of the promise executor
SendStart(owner, method, to) ==
    /\ sendPc' = "inflight"
    /\ sendOwner' = owner
    /\ sendMethod' = method
    /\ sendTo' = to
    /\ sendRes' = NoReply
    /\ sendErr' = "none"
    /\ datagrams' = datagrams + 1
    /\ sendRun' = [done |-> FALSE, timer |-> "pending", sock |-> "open",
                   sent |-> 1, closes |-> 0, settles |-> 0, late |-> 0]

\* variant: the handlers act whether or not done is set
FirstEvent_always == TRUE

\* `if (!done)` at the head of every handler
FirstEvent == ~sendRun.done

\* the body of a handler: done = true, the timer (cleared, or fired when the
\* handler is the timer's), sock.close(), then resolve or reject
Handled(t) ==
    [sendRun EXCEPT !.done = TRUE, !.timer = t, !.sock = "closed",
                    !.closes = @ + 1, !.settles = @ + 1]

SendSettle(st, r, e, t) ==
    /\ Macrotask
    /\ sendPc = "inflight" /\ FirstEvent
    /\ sendPc' = st
    /\ sendRes' = r
    /\ sendErr' = e
    /\ sendRun' = Handled(t)
    /\ UNCHANGED << sendOwner, sendMethod, sendTo, datagrams >>
    /\ UNCHANGED << envVars, mainVars, swrVars, dbmVars, bcVars, scanVars, obsVars >>

\* message handler, JSON.parse succeeds
SendReply == \E r \in Replies(sendMethod, sendTo) : SendSettle("resolved", r, "none", "cleared")

\* message handler, JSON.parse throws
SendGarbage == SendSettle("rejected", NoReply, "malformed", "cleared")

\* the timeout timer
SendTimeout == sendRun.timer = "pending" /\ SendSettle("rejected", NoReply, "timeout", "fired")

\* the socket's error event, or an error passed to the send callback
SendError == SendSettle("rejected", NoReply, "error", "cleared")

\* an event that reaches a handler after the call has settled and its caller
\* has gone on (followed for a direct call of send only): resolve and reject
\* on the settled promise change nothing, whatever the handler does
SendLate(t) ==
    /\ Macrotask
    /\ sendOwner = "caller" /\ sendPc = "idle" /\ sendRun.sock # "none"
    /\ sendRun.late < MaxLate
    /\ sendRun' = IF FirstEvent
                  THEN [Handled(t) EXCEPT !.late = @ + 1]
                  ELSE [sendRun EXCEPT !.late = @ + 1]
    /\ UNCHANGED << sendPc, sendOwner, sendMethod, sendTo, sendRes, sendErr, datagrams >>
    /\ UNCHANGED << envVars, mainVars, swrVars, dbmVars, bcVars, scanVars, obsVars >>

\* a second datagram reaches the message handler
SendLateMessage == SendLate("cleared")

\* the socket's error event after the call has settled
SendLateError == SendLate("cleared")

\* the send callback is called with an error after the call has settled
SendLateCallback == SendLate("cleared")

\* ---- sendWithRetry ----

\* the call, up to the await of the first send
SwrCall(method, n, to) ==
    /\ swrPc' = "awaitSend"
    /\ swrI' = 0
    /\ swrRetries' = n
    /\ swrLastErr' = "none"
    /\ swrResp' = NoReply
    /\ swrSends' = 1
    /\ slept' = 0
    /\ setPilotSends' = IF method = "setPilot" THEN setPilotSends + 1 ELSE setPilotSends
    /\ SendStart("swr", method, to)

\* variant: the delay is also waited after the last attempt
RetryAgain_afterLast(i, n) == i < n

\* whether the loop, after a failed attempt i of n, sleeps and goes round again
RetryAgain(i, n) == i < n - 1

\* variant: the first error caught is kept
Caught_first(prev, e) == IF prev = "none" THEN e ELSE prev

\* lastErr = e
Caught(prev, e) == e

\* variant: a response is returned only from the last turn of the loop
Returned_atLast(st, i, n) == st = "resolved" /\ i = n - 1

\* `return await send(ip, payload)`: the turn whose send resolves returns
Returned(st, i, n) == st = "resolved"

\* continuation of `await send(...)`: return the response, or catch the error
SwrAfterSend ==
    /\ Alive
    /\ swrPc = "awaitSend" /\ sendOwner = "swr" /\ sendPc \in {"resolved", "rejected"}
    /\ sendPc' = "idle"
    /\ IF Returned(sendPc, swrI, swrRetries)
       THEN /\ swrPc' = "returned"
            /\ swrResp' = sendRes
            /\ UNCHANGED << swrI, swrLastErr, slept >>
       ELSE /\ swrLastErr' = Caught(swrLastErr, sendErr)
            /\ IF RetryAgain(swrI, swrRetries)
               THEN swrPc' = "sleep" /\ slept' = slept + RETRY_DELAY_MS /\ UNCHANGED swrI
               ELSE swrPc' = "thrown" /\ swrI' = swrI + 1 /\ UNCHANGED slept
            /\ UNCHANGED swrResp
    /\ UNCHANGED << swrRetries, swrSends, setPilotSends >>
    /\ UNCHANGED << sendOwner, sendMethod, sendTo, sendRes, sendErr, datagrams, sendRun >>
    /\ UNCHANGED << envVars, mainVars, dbmVars, bcVars, scanVars, obsVars >>

\* the sleep(RETRY_DELAY_MS) timer: next turn of the loop, next send
SwrSleepDone ==
    /\ Macrotask
    /\ swrPc = "sleep"
    /\ swrPc' = "awaitSend"
    /\ swrI' = swrI + 1
    /\ swrSends' = swrSends + 1
    /\ setPilotSends' = IF sendMethod = "setPilot" THEN setPilotSends + 1 ELSE setPilotSends
    /\ SendStart("swr", sendMethod, sendTo)
    /\ UNCHANGED << swrRetries, swrLastErr, swrResp, slept >>
    /\ UNCHANGED << envVars, mainVars, dbmVars, bcVars, scanVars, obsVars >>

\* ---- requireBulbIp ----

obs4 == << lateProgress, lateSockets, scanBatches, progressCalls, progressArg >>

\* variant: any reply with a result validates the cached address
CachedValid_anyReply(r) == r.kind = "pilot"

\* variant: the early return is lost, the cached address is never reused
CachedValid_never(r) == FALSE

\* resp.result?.mac === mac, on the reply of the cached address
CachedValid(r) == r.kind = "pilot" /\ r.mac = "target"

\* requireBulbIp throws when it was given onStatus (cmdAnimatedPreset's catch
\* shows the message and sleeps before process.exit(1)); without onStatus it
\* prints the message and calls process.exit(1) itself
RbiThrow(msg) ==
    /\ pc' = IF ~onStatus THEN "exited" ELSE IF cmd = "preset" THEN "fail_sleep" ELSE "rbi_thrown"
    /\ exitCode' = IF ~onStatus THEN 1 ELSE exitCode
    /\ outcome' = msg

\* what came back from the cached address, as an observer of the wire sees it
ProbeSeen(st, r, e) ==
    IF st = "rejected" THEN e
    ELSE IF r.kind = "pilot" THEN (IF r.mac = "target" THEN "valid" ELSE "mismatch")
    ELSE "empty"

\* variant: the missing interface goes unnoticed and discovery is started
NoInterface_unnoticed == FALSE

\* !broadcastAddr: getBroadcastAddress() found no external IPv4 interface
NoInterface == ~iface

\* variant: the hint is not looked at
SkipBroadcast_ignored == FALSE

\* const skipBroadcast = process.env.WIZ_SKIP_BROADCAST === "1"
SkipBroadcast == WIZ_SKIP_BROADCAST

\* from getBroadcastAddress() to the await of the discovery
RbiDiscover ==
    IF NoInterface
    THEN /\ RbiThrow("no network interface found")
         /\ UNCHANGED << dbmVars, bcVars, scanVars, obs4 >>
    ELSE IF SkipBroadcast
    THEN /\ pc' = "rbi_scan"
         /\ ScanStart("rbi", 0)
         /\ UNCHANGED << outcome, exitCode, graceTimer, bcVars >>
    ELSE /\ pc' = "rbi_discover"
         /\ DbmStart
         /\ UNCHANGED << outcome, exitCode, scanVars, obs4 >>

\* variant: the skip-broadcast hint is left out of the updates
Persist_noHint(newIp, used) ==
    LET setIp == newIp # cachedIp
    IN  /\ WIZ_IP' = IF setIp THEN newIp ELSE WIZ_IP
        /\ UNCHANGED WIZ_SKIP_BROADCAST
        /\ saveEnvCalls' = IF setIp THEN saveEnvCalls + 1 ELSE saveEnvCalls

\* variant: saveEnv is called after every discovery, updates or not
Persist_always(newIp, used) ==
    /\ WIZ_IP' = newIp
    /\ WIZ_SKIP_BROADCAST' = (WIZ_SKIP_BROADCAST \/ used)
    /\ saveEnvCalls' = saveEnvCalls + 1

\* the updates record and saveEnv: what is written back after a discovery
Persist(newIp, used) ==
    LET skipBroadcast == WIZ_SKIP_BROADCAST
        setIp == newIp # cachedIp
        setSkip == used /\ ~skipBroadcast
    IN  /\ WIZ_IP' = IF setIp THEN newIp ELSE WIZ_IP
        /\ WIZ_SKIP_BROADCAST' = (WIZ_SKIP_BROADCAST \/ setSkip)
        /\ saveEnvCalls' = IF setIp \/ setSkip THEN saveEnvCalls + 1 ELSE saveEnvCalls

\* requireBulbIp returns addr; cmdAnimatedPreset goes on to read the state
RbiReturn(addr, used) ==
    /\ ip' = addr
    /\ usedSubnetScan' = used
    /\ IF cmd = "preset"
       THEN /\ pc' = "pre_read"
            /\ SwrCall("getPilot", MAX_RETRIES, addr)
       ELSE /\ pc' = "rbi_returned"
            /\ sendPc' = "idle"
            /\ UNCHANGED << sendOwner, sendMethod, sendTo, sendRes, sendErr, datagrams, sendRun, swrVars >>

\* the head of requireBulbIp: probe the cached address if there is one
RbiStart ==
    /\ cachedIp' = WIZ_IP
    /\ IF WIZ_IP # NoAddr
       THEN /\ pc' = "rbi_probe"
            /\ SendStart("rbi", "getPilot", WIZ_IP)
            /\ UNCHANGED << outcome, exitCode, dbmVars, bcVars, scanVars, obs4 >>
       ELSE /\ RbiDiscover
            /\ UNCHANGED sendVars

\* continuation of the 500 ms getPilot probe of the cached address
RbiAfterProbe ==
    /\ Alive
    /\ pc = "rbi_probe" /\ sendOwner = "rbi" /\ sendPc \in {"resolved", "rejected"}
    /\ cacheProbe' = ProbeSeen(sendPc, sendRes, sendErr)
    /\ IF sendPc = "resolved" /\ CachedValid(sendRes)
       THEN /\ RbiReturn(cachedIp, FALSE)
            /\ UNCHANGED << outcome, exitCode, dbmVars, bcVars, scanVars, obs4 >>
       ELSE /\ RbiDiscover
            /\ sendPc' = "idle"
            /\ UNCHANGED << sendOwner, sendMethod, sendTo, sendRes, sendErr, datagrams, sendRun >>
            /\ UNCHANGED << swrVars, ip, usedSubnetScan >>
    /\ UNCHANGED << envVars, cachedIp, verified, snap, saveEnvCalls, payload, bcMatch >>

\* continuation of `await discoverByMac(...)`
RbiAfterDiscover ==
    /\ Alive
    /\ pc = "rbi_discover" /\ dbmPc \in {"resolved", "rejected"}
    /\ IF dbmPc = "rejected"
       THEN /\ RbiThrow("bulb not found on network")
            /\ UNCHANGED << WIZ_IP, WIZ_SKIP_BROADCAST, saveEnvCalls, ip, usedSubnetScan,
                            sendVars, swrVars >>
       ELSE /\ Persist(dbmIp, dbmUsedScan)
            /\ RbiReturn(dbmIp, dbmUsedScan)
            /\ UNCHANGED << outcome, exitCode >>
    /\ UNCHANGED << iface, bulbHost, network, argv, cmd, cachedIp, cacheProbe, verified, snap, payload >>
    /\ UNCHANGED << dbmVars, bcVars, scanVars, obsVars >>

\* continuation of `await discoverBySubnetScan(...)` (WIZ_SKIP_BROADCAST = 1)
RbiAfterScan ==
    /\ Alive
    /\ pc = "rbi_scan" /\ scanPc \in {"found", "notfound", "nonetwork"}
    /\ IF scanPc # "found"
       THEN /\ RbiThrow("bulb not found on network")
            /\ UNCHANGED << WIZ_IP, WIZ_SKIP_BROADCAST, saveEnvCalls, ip, usedSubnetScan,
                            sendVars, swrVars >>
       ELSE /\ Persist(scanRes, TRUE)
            /\ RbiReturn(scanRes, TRUE)
            /\ UNCHANGED << outcome, exitCode >>
    /\ UNCHANGED << iface, bulbHost, network, argv, cmd, cachedIp, cacheProbe, verified, snap, payload >>
    /\ UNCHANGED << dbmVars, bcVars, scanVars, obsVars >>

\* ---- cmdAnimatedPreset ----

\* variant: the command goes to the address of .env whenever there is one
setPilotTo_cached == IF cachedIp # NoAddr THEN cachedIp ELSE ip

\* the ip the commands pass to sendWithRetry: what requireBulbIp returned
setPilotTo == ip

\* variant: any ack counts as success, whatever its flag
AckOk_anyAck(r) == r.kind = "ack"

\* !resp.result?.success is false: the ack carries success: true
AckOk(r) == r.kind = "ack" /\ r.success = "true"

\* parseArgs, then requireBulbIp up to its first await
CmdStart ==
    /\ pc = "start" /\ cmd = "preset"
    /\ IF ~HexAccepted(argv) \/ ~BrightnessAccepted(argv) \/ parseArgs(argv).modeName = "none"
       THEN /\ pc' = "exited"
            /\ exitCode' = 1
            /\ outcome' = "usage"
            /\ UNCHANGED << cachedIp, sendVars, dbmVars, bcVars, scanVars, obs4 >>
       ELSE RbiStart
    /\ UNCHANGED << envVars, cacheProbe, ip, usedSubnetScan, verified, snap, saveEnvCalls, payload,
                    swrVars, bcMatch >>

\* after the state pre-read, whether it returned or threw: send the command
CmdAfterPreRead ==
    /\ Alive
    /\ pc = "pre_read" /\ swrPc \in {"returned", "thrown"}
    /\ pc' = "set_pilot"
    /\ payload' = << parseArgs(argv).params >>
    /\ SwrCall("setPilot", MAX_RETRIES, setPilotTo)
    /\ UNCHANGED << cachedIp, cacheProbe, ip, usedSubnetScan, outcome, exitCode, verified, snap,
                    saveEnvCalls >>
    /\ UNCHANGED << envVars, dbmVars, bcVars, scanVars, obsVars >>

\* after the setPilot: failed, rejected by the bulb, or on to the verification;
\* resp.result on a null reply throws outside any try, and the rejection of
\* cmdAnimatedPreset() is handled nowhere: the runtime ends the process
CmdAfterSetPilot ==
    /\ Alive
    /\ pc = "set_pilot" /\ swrPc \in {"returned", "thrown"}
    /\ exitCode' = IF swrPc = "returned" /\ swrResp.kind = "null" THEN 1 ELSE exitCode
    /\ IF swrPc = "thrown"
       THEN /\ pc' = "fail_sleep"
            /\ outcome' = "failed"
            /\ swrPc' = "idle"
            /\ UNCHANGED << swrI, swrRetries, swrLastErr, swrResp, swrSends, slept, setPilotSends >>
            /\ UNCHANGED sendVars
       ELSE IF swrResp.kind = "null"
       THEN /\ pc' = "exited"
            /\ outcome' = "uncaught TypeError"
            /\ swrPc' = "idle"
            /\ UNCHANGED << swrI, swrRetries, swrLastErr, swrResp, swrSends, slept, setPilotSends >>
            /\ UNCHANGED sendVars
       ELSE IF ~AckOk(swrResp)
       THEN /\ pc' = "fail_sleep"
            /\ outcome' = "bulb rejected command"
            /\ swrPc' = "idle"
            /\ UNCHANGED << swrI, swrRetries, swrLastErr, swrResp, swrSends, slept, setPilotSends >>
            /\ UNCHANGED sendVars
       ELSE /\ pc' = "verify"
            /\ SwrCall("getPilot", MAX_RETRIES, ip)
            /\ UNCHANGED outcome
    /\ UNCHANGED << cachedIp, cacheProbe, ip, usedSubnetScan, verified, snap, saveEnvCalls, payload >>
    /\ UNCHANGED << envVars, dbmVars, bcVars, scanVars, obsVars >>

\* mode.verify(c.result) inside the try: a throw of sendWithRetry, or of verify
\* on a reply without result, is caught and leaves verified = false
Verified(st, r) == st = "returned" /\ r.kind = "pilot" /\ ModeVerify(parseArgs(argv).verify, r)

\* variant: a throw of the verification getPilot escapes to the failure exit
AfterVerifyPc_escalate(st) == IF st = "thrown" THEN "fail_sleep" ELSE "finishing"

\* where the operation goes after the verification try/catch: always on to the
\* final status and r.finish(true)
AfterVerifyPc(st) == "finishing"

CmdAfterVerify ==
    /\ Alive
    /\ pc = "verify" /\ swrPc \in {"returned", "thrown"}
    /\ verified' = Verified(swrPc, swrResp)
    /\ snap' = swrResp
    /\ outcome' = IF verified' THEN "mode active" ELSE "sent (unverified)"
    /\ pc' = AfterVerifyPc(swrPc)
    /\ swrPc' = "idle"
    /\ UNCHANGED << swrI, swrRetries, swrLastErr, swrResp, swrSends, slept, setPilotSends >>
    /\ UNCHANGED << cachedIp, cacheProbe, ip, usedSubnetScan, exitCode, saveEnvCalls, payload >>
    /\ UNCHANGED << envVars, sendVars, dbmVars, bcVars, scanVars, obsVars >>

\* sleep(2000); r.stop(); process.exit(1)
CmdFailExit ==
    /\ Macrotask
    /\ pc = "fail_sleep"
    /\ pc' = "exited"
    /\ exitCode' = 1
    /\ UNCHANGED << cachedIp, cacheProbe, ip, usedSubnetScan, outcome, verified, snap, saveEnvCalls, payload >>
    /\ UNCHANGED << envVars, sendVars, swrVars, dbmVars, bcVars, scanVars, obsVars >>

\* await r.finish(true); process.exit(0)
CmdFinishExit ==
    /\ Macrotask
    /\ pc = "finishing"
    /\ pc' = "exited"
    /\ exitCode' = 0
    /\ UNCHANGED << cachedIp, cacheProbe, ip, usedSubnetScan, outcome, verified, snap, saveEnvCalls, payload >>
    /\ UNCHANGED << envVars, sendVars, swrVars, dbmVars, bcVars, scanVars, obsVars >>

\* ---- cmdOn, cmdOff ----

\* { state: true } of cmdOn
cmdOnParams == Params(TRUE, Absent, Absent, Absent, Absent, Absent, Absent, Absent)

\* { state: false } of cmdOff
cmdOffParams == Params(FALSE, Absent, Absent, Absent, Absent, Absent, Absent, Absent)

\* `wiz on` / `wiz off` on the network: requireBulbIp(mac) up to its first await
OnOffStart ==
    /\ pc = "start" /\ ~onStatus
    /\ RbiStart
    /\ UNCHANGED << envVars, cacheProbe, ip, usedSubnetScan, verified, snap, saveEnvCalls, payload,
                    swrVars, bcMatch >>

\* continuation of `await requireBulbIp(mac)`: the setPilot, three attempts
OnOffAfterResolve ==
    /\ pc = "rbi_returned" /\ ~onStatus
    /\ pc' = "on_off_set"
    /\ payload' = << IF cmd = "on" THEN cmdOnParams ELSE cmdOffParams >>
    /\ SwrCall("setPilot", MAX_RETRIES, setPilotTo)
    /\ UNCHANGED << cachedIp, cacheProbe, ip, usedSubnetScan, outcome, exitCode, verified, snap,
                    saveEnvCalls >>
    /\ UNCHANGED << envVars, dbmVars, bcVars, scanVars, obsVars >>

\* continuation of `await sendWithRetry(...)`, whose value is dropped: a throw
\* is a rejection nobody handles (the runtime ends the process), any response
\* leads to `light off`, or for cmdOn to the state read
OnOffAfterSetPilot ==
    /\ pc = "on_off_set" /\ swrPc \in {"returned", "thrown"}
    /\ swrPc' = "idle"
    /\ UNCHANGED << swrI, swrRetries, swrLastErr, swrResp, swrSends, slept, setPilotSends >>
    /\ IF swrPc = "thrown"
       THEN /\ pc' = "exited" /\ exitCode' = 1 /\ outcome' = "uncaught error"
            /\ UNCHANGED sendVars
       ELSE IF cmd = "off"
       THEN /\ pc' = "on_off_done" /\ outcome' = "light off"
            /\ UNCHANGED << exitCode, sendVars >>
       ELSE /\ pc' = "on_read"
            /\ SendStart("cmdOn", "getPilot", ip)
            /\ UNCHANGED << outcome, exitCode >>
    /\ UNCHANGED << cachedIp, cacheProbe, ip, usedSubnetScan, verified, snap, saveEnvCalls, payload >>
    /\ UNCHANGED << envVars, dbmVars, bcVars, scanVars, obsVars >>

\* cmdOn after its getPilot, answered or not: `light on`, with the state if any
OnAfterRead ==
    /\ pc = "on_read" /\ sendOwner = "cmdOn" /\ sendPc \in {"resolved", "rejected"}
    /\ pc' = "on_off_done"
    /\ outcome' = "light on"
    /\ snap' = IF sendPc = "resolved" THEN sendRes ELSE snap
    /\ sendPc' = "idle"
    /\ UNCHANGED << sendOwner, sendMethod, sendTo, sendRes, sendErr, datagrams, sendRun >>
    /\ UNCHANGED << cachedIp, cacheProbe, ip, usedSubnetScan, exitCode, verified, saveEnvCalls, payload >>
    /\ UNCHANGED << envVars, swrVars, dbmVars, bcVars, scanVars, obsVars >>

\* nothing is left to run: the process ends with status 0
OnOffExit ==
    /\ Macrotask
    /\ pc = "on_off_done"
    /\ pc' = "exited"
    /\ exitCode' = 0
    /\ UNCHANGED << cachedIp, cacheProbe, ip, usedSubnetScan, outcome, verified, snap, saveEnvCalls, payload >>
    /\ UNCHANGED << envVars, sendVars, swrVars, dbmVars, bcVars, scanVars, obsVars >>

\* ---- a direct caller of a preset's verify closure ----

\* brightness and temperature values a getPilot result is tried with: around
\* each preset's own, beyond the ends of the percent scale, and missing
DimmingTried == {Absent, 0, 1, 2, 3, 4, 37, 38, 40, 42, 43, 97, 98, 100, 101, 103}

TempTried == {Absent, 2200, 2700, 2701, 5000}

\* mode.verify(c.result) on its own, for a built-in preset and any snapshot
VerifyCall ==
    /\ pc = "verify_call" /\ cmd = "verify"
    /\ pc' = "verify_done"
    /\ \E st \in BOOLEAN, d \in DimmingTried, t \in TempTried :
         snap' = Reply("pilot", "target", "absent", st, d, t)
    /\ verified' = ModeVerify(parseArgs(argv).verify, snap')
    /\ UNCHANGED << cachedIp, cacheProbe, ip, usedSubnetScan, outcome, exitCode,
                    saveEnvCalls, payload >>
    /\ UNCHANGED << envVars, sendVars, swrVars, dbmVars, bcVars, scanVars, obsVars >>

\* ---- a direct caller of sendWithRetry, with any retries argument ----

Methods == {"getPilot", "setPilot"}

HarnessCall ==
    /\ pc = "harness"
    /\ pc' = "harness_await"
    /\ \E n \in 1..MaxRetriesArg, m \in Methods : SwrCall(m, n, bulbHost)
    /\ UNCHANGED << cachedIp, cacheProbe, ip, usedSubnetScan, outcome, exitCode, verified, snap,
                    saveEnvCalls, payload >>
    /\ UNCHANGED << envVars, dbmVars, bcVars, scanVars, obsVars >>

\* continuation of `await sendWithRetry(...)`, or its catch: what the caller got
HarnessAfter ==
    /\ pc = "harness_await" /\ swrPc \in {"returned", "thrown"}
    /\ pc' = "harness_done"
    /\ outcome' = IF swrPc = "returned" THEN "response" ELSE swrLastErr
    /\ UNCHANGED << cachedIp, cacheProbe, ip, usedSubnetScan, exitCode, verified, snap,
                    saveEnvCalls, payload >>
    /\ UNCHANGED << envVars, sendVars, swrVars, dbmVars, bcVars, scanVars, obsVars >>

\* ---- a direct caller of send ----

SendCall ==
    /\ pc = "start" /\ cmd = "send"
    /\ pc' = "send_await"
    /\ \E m \in Methods : SendStart("caller", m, bulbHost)
    /\ UNCHANGED << cachedIp, cacheProbe, ip, usedSubnetScan, outcome, exitCode, verified, snap,
                    saveEnvCalls, payload >>
    /\ UNCHANGED << envVars, swrVars, dbmVars, bcVars, scanVars, obsVars >>

\* continuation of `await send(...)`, or its catch
SendCallAfter ==
    /\ pc = "send_await" /\ sendOwner = "caller" /\ sendPc \in {"resolved", "rejected"}
    /\ pc' = "send_done"
    /\ sendPc' = "idle"
    /\ outcome' = IF sendPc = "resolved" THEN "response" ELSE sendErr
    /\ UNCHANGED << sendOwner, sendMethod, sendTo, sendRes, sendErr, datagrams, sendRun >>
    /\ UNCHANGED << cachedIp, cacheProbe, ip, usedSubnetScan, exitCode, verified, snap,
                    saveEnvCalls, payload >>
    /\ UNCHANGED << envVars, swrVars, dbmVars, bcVars, scanVars, obsVars >>

\* ---- a direct caller of discoverAllSubnetScan ----

ScanAllCall ==
    /\ pc = "start" /\ cmd = "scanall"
    /\ pc' = "scanall_await"
    /\ ScanAllStart
    /\ UNCHANGED << cachedIp, cacheProbe, ip, usedSubnetScan, outcome, exitCode, verified, snap,
                    saveEnvCalls, payload >>
    /\ UNCHANGED << envVars, sendVars, swrVars, dbmVars, bcVars, bcMatch >>

\* continuation of `await discoverAllSubnetScan(...)`
ScanAllAfter ==
    /\ pc = "scanall_await" /\ scanPc = "done"
    /\ pc' = "scanall_done"
    /\ UNCHANGED << cachedIp, cacheProbe, ip, usedSubnetScan, outcome, exitCode, verified, snap,
                    saveEnvCalls, payload >>
    /\ UNCHANGED << envVars, sendVars, swrVars, dbmVars, bcVars, scanVars, obsVars >>

\* ---- a caller that only resolves the address (requireBulbIp with onStatus) ----

ResolveStart ==
    /\ pc = "start" /\ cmd = "resolve"
    /\ RbiStart
    /\ UNCHANGED << envVars, cacheProbe, ip, usedSubnetScan, verified, snap, saveEnvCalls, payload,
                    swrVars, bcMatch >>

\* the caller's later process.exit, at any time after requireBulbIp is over
CallerExit ==
    /\ Macrotask
    /\ pc \in {"rbi_returned", "rbi_thrown"}
    /\ pc' = "exited"
    /\ exitCode' = IF pc = "rbi_returned" THEN 0 ELSE 1
    /\ UNCHANGED << cachedIp, cacheProbe, ip, usedSubnetScan, outcome, verified, snap, saveEnvCalls, payload >>
    /\ UNCHANGED << envVars, sendVars, swrVars, dbmVars, bcVars, scanVars, obsVars >>

\* ---- one invocation after another, on the same .env ----

\* the next invocation: a new process, whose only inheritance is the .env file
NextRun ==
    /\ pc = "exited" /\ cmd = "resolve"
    /\ pc' = "start"
    /\ cachedIp' = NoAddr /\ cacheProbe' = "none" /\ ip' = NoAddr /\ usedSubnetScan' = FALSE
    /\ outcome' = "none" /\ exitCode' = Absent /\ verified' = FALSE /\ snap' = NoReply
    /\ saveEnvCalls' = 0 /\ payload' = NoPayload
    /\ sendPc' = "idle" /\ sendOwner' = "none" /\ sendMethod' = "none" /\ sendTo' = NoAddr
    /\ sendRes' = NoReply /\ sendErr' = "none" /\ datagrams' = 0 /\ sendRun' = NoRun
    /\ swrPc' = "idle" /\ swrI' = 0 /\ swrRetries' = 0 /\ swrLastErr' = "none" /\ swrResp' = NoReply
    /\ swrSends' = 0 /\ slept' = 0 /\ setPilotSends' = 0
    /\ dbmPc' = "idle" /\ settled' = FALSE /\ failures' = 0 /\ rejectCalls' = 0
    /\ dbmIp' = NoAddr /\ dbmUsedScan' = FALSE /\ graceTimer' = "unset"
    /\ bcSock' = "none" /\ bcDone' = FALSE /\ bcBound' = FALSE /\ bcTimer' = "unset"
    /\ reTimer' = "unset" /\ bcSent' = 0 /\ bcIgnored' = 0
    /\ scanPc' = "idle" /\ scanOwner' = "none" /\ found' = NoneFound /\ scanS' = 0
    /\ probe' = [h \in Addrs |-> "unsent"] /\ scanRes' = NoAddr
    /\ lateProgress' = FALSE /\ lateSockets' = FALSE /\ bcMatch' = "none"
    /\ scanBatches' = 0 /\ progressCalls' = 0 /\ progressArg' = 0
    /\ UNCHANGED envVars

\* a `wiz discover` between two invocations, reduced to the saving of the
\* selection: WIZ_MAC and WIZ_IP become the chosen bulb's, the hint is emptied
DiscoverSave ==
    /\ pc = "exited" /\ cmd = "resolve" /\ outcome # "saved"
    /\ \E chosen \in Hosts : WIZ_IP' = chosen /\ bulbHost' = chosen
    /\ WIZ_SKIP_BROADCAST' = FALSE
    /\ outcome' = "saved"
    /\ UNCHANGED << iface, network, argv, cmd >>
    /\ UNCHANGED << pc, cachedIp, cacheProbe, ip, usedSubnetScan, exitCode, verified, snap,
                    saveEnvCalls, payload >>
    /\ UNCHANGED << sendVars, swrVars, dbmVars, bcVars, scanVars, obsVars >>

\* ---- the entry point: which setPilot command an invocation builds ----
\* (what is done with the command on the network is the matter of the other
\* specifications; here every command line is tried)

argsFrame ==
    /\ UNCHANGED << cachedIp, cacheProbe, ip, usedSubnetScan, verified, snap, saveEnvCalls >>
    /\ UNCHANGED << envVars, sendVars, swrVars, dbmVars, bcVars, scanVars, obsVars >>

\* subcmd === "on": the command of cmdOn
OnCommand ==
    /\ pc = "args" /\ cmd = "on"
    /\ payload' = << cmdOnParams >>
    /\ pc' = "args_done"
    /\ UNCHANGED << outcome, exitCode >>
    /\ argsFrame

\* subcmd === "off": the command of cmdOff
OffCommand ==
    /\ pc = "args" /\ cmd = "off"
    /\ payload' = << cmdOffParams >>
    /\ pc' = "args_done"
    /\ UNCHANGED << outcome, exitCode >>
    /\ argsFrame

\* anything else: parseArgs, which exits with status 1 on a bad color or
\* brightness, then showHelp(1) without a mode, else the mode's params
PresetCommand ==
    /\ pc = "args" /\ cmd = "preset"
    /\ IF ~HexAccepted(argv) \/ ~BrightnessAccepted(argv)
       THEN pc' = "exited" /\ exitCode' = 1 /\ outcome' = "invalid argument" /\ UNCHANGED payload
       ELSE IF parseArgs(argv).modeName = "none"
       THEN pc' = "exited" /\ exitCode' = 1 /\ outcome' = "usage" /\ UNCHANGED payload
       ELSE /\ pc' = "args_done"
            /\ payload' = << parseArgs(argv).params >>
            /\ UNCHANGED << outcome, exitCode >>
    /\ argsFrame

\* ---- initial states ----

\* command lines tried: a preset, a preset with override, brightness only, a color
Argv(m, h, b) == [modeName |-> m, hexColor |-> h, brightness |-> b]

ArgvSet == { Argv("chill", NoColor, Absent), Argv("chill", NoColor, 60),
             Argv("none", NoColor, 40) }

\* addresses WIZ_IP may hold at start (NoAddr: not set)
CachedAddrs == 0..2

InitRest ==
    /\ cachedIp = NoAddr /\ cacheProbe = "none" /\ ip = NoAddr /\ usedSubnetScan = FALSE
    /\ outcome = "none" /\ exitCode = Absent /\ verified = FALSE /\ snap = NoReply
    /\ saveEnvCalls = 0 /\ payload = NoPayload
    /\ sendPc = "idle" /\ sendOwner = "none" /\ sendMethod = "none" /\ sendTo = NoAddr
    /\ sendRes = NoReply /\ sendErr = "none" /\ datagrams = 0 /\ sendRun = NoRun
    /\ swrPc = "idle" /\ swrI = 0 /\ swrRetries = 0 /\ swrLastErr = "none" /\ swrResp = NoReply
    /\ swrSends = 0 /\ slept = 0 /\ setPilotSends = 0
    /\ dbmPc = "idle" /\ settled = FALSE /\ failures = 0 /\ rejectCalls = 0
    /\ dbmIp = NoAddr /\ dbmUsedScan = FALSE /\ graceTimer = "unset"
    /\ bcSock = "none" /\ bcDone = FALSE /\ bcBound = FALSE /\ bcTimer = "unset"
    /\ reTimer = "unset" /\ bcSent = 0 /\ bcIgnored = 0
    /\ scanPc = "idle" /\ scanOwner = "none" /\ found = NoneFound /\ scanS = 0
    /\ probe = [h \in Addrs |-> "unsent"] /\ scanRes = NoAddr
    /\ lateProgress = FALSE /\ lateSockets = FALSE /\ bcMatch = "none"
    /\ scanBatches = 0 /\ progressCalls = 0 /\ progressArg = 0

\* requireBulbIp called with any .env, anywhere
InitResolve ==
    /\ WIZ_IP \in CachedAddrs
    /\ WIZ_SKIP_BROADCAST \in BOOLEAN
    /\ iface \in BOOLEAN
    /\ bulbHost \in {NoAddr} \cup Hosts
    /\ network \in {"unreliable", "broadcastSuppressed"}
    /\ argv = Argv("chill", NoColor, Absent)
    /\ cmd = "resolve"
    /\ pc = "start"
    /\ InitRest

\* `wiz <preset or custom>` where .env carries the skip-broadcast hint: discovery
\* is the scan alone, and nothing of it outlives requireBulbIp
InitPreset ==
    /\ WIZ_IP \in CachedAddrs
    /\ WIZ_SKIP_BROADCAST = TRUE
    /\ iface \in BOOLEAN
    /\ bulbHost \in {NoAddr} \cup Hosts
    /\ network = "unreliable"
    /\ argv \in ArgvSet
    /\ cmd = "preset"
    /\ pc = "start"
    /\ InitRest

\* `wiz -chill` where .env has neither an address nor the hint: discovery is
\* the broadcast with the scan behind it, and the command follows the winner
InitPresetRace ==
    /\ WIZ_IP = NoAddr
    /\ WIZ_SKIP_BROADCAST = FALSE
    /\ iface = TRUE
    /\ bulbHost \in {1, LastHost - 1}
    /\ network = "unreliable"
    /\ argv = Argv("chill", NoColor, Absent)
    /\ cmd = "preset"
    /\ pc = "start"
    /\ InitRest

\* `wiz on` or `wiz off`, where .env carries the skip-broadcast hint
InitOnOff ==
    /\ WIZ_IP \in CachedAddrs
    /\ WIZ_SKIP_BROADCAST = TRUE
    /\ iface \in BOOLEAN
    /\ bulbHost \in {NoAddr} \cup Hosts
    /\ network = "unreliable"
    /\ argv = Argv("none", NoColor, Absent)
    /\ cmd \in {"on", "off"}
    /\ pc = "start"
    /\ InitRest

\* color tokens tried: every three-character color over HexDigits, six-character
\* ones, and tokens of a wrong length or with a character that is no hex digit
HexDigits == {0, 10, 15}

HexTried ==
    { << a, b, c >> : a \in HexDigits, b \in HexDigits, c \in HexDigits }
    \cup { << 15, 15, 6, 11, 3, 5 >>, << 0, 0, 0, 0, 0, 0 >>, << 1, 0, 0 >>,
           << 15, 0, 0, 0 >>, << 15, 15, 0, 0, 1 >>, << NotHex, 1, 2 >>,
           << 15, 15, 0, 0, 0, NotHex >>, NoColor }

\* brightness values tried, as parseInt leaves them
BrightnessTried == {Absent, NaN, 0, 1, 2, 5, 9, 10, 40, 98, 100, 101}

ModeNames == {"none", "movie", "chill", "day"}

\* any command line: `wiz on`, `wiz off`, or a preset / color / brightness
InitArgs ==
    /\ WIZ_IP = NoAddr /\ WIZ_SKIP_BROADCAST = FALSE /\ iface = TRUE
    /\ bulbHost = 1 /\ network = "unreliable"
    /\ cmd \in {"on", "off", "preset"}
    /\ IF cmd = "preset"
       THEN \E m \in ModeNames, h \in HexTried, b \in BrightnessTried : argv = Argv(m, h, b)
       ELSE argv = Argv("none", NoColor, Absent)
    /\ pc = "args"
    /\ InitRest

\* a built-in preset without override, about to verify a getPilot result
InitVerify ==
    /\ WIZ_IP = NoAddr /\ WIZ_SKIP_BROADCAST = FALSE /\ iface = TRUE
    /\ bulbHost = 1 /\ network = "unreliable"
    /\ \E m \in ModeNames \ {"none"} : argv = Argv(m, NoColor, Absent)
    /\ cmd = "verify"
    /\ pc = "verify_call"
    /\ InitRest

\* send called on its own, to any address
InitSend ==
    /\ WIZ_IP = NoAddr /\ WIZ_SKIP_BROADCAST = FALSE /\ iface = TRUE
    /\ bulbHost \in Hosts /\ network = "unreliable" /\ argv = Argv("chill", NoColor, Absent)
    /\ cmd = "send"
    /\ pc = "start"
    /\ InitRest

\* discoverAllSubnetScan called on its own, on any network
InitScanAll ==
    /\ WIZ_IP = NoAddr /\ WIZ_SKIP_BROADCAST = FALSE
    /\ iface \in BOOLEAN
    /\ bulbHost \in {NoAddr} \cup Hosts
    /\ network \in {"unreliable", "broadcastSuppressed"}
    /\ argv = Argv("chill", NoColor, Absent)
    /\ cmd = "scanall"
    /\ pc = "start"
    /\ InitRest

\* either scan: a resolution of the bulb's address, or an enumeration
InitScans == InitResolve \/ InitScanAll

\* sendWithRetry called on its own
InitRetry ==
    /\ WIZ_IP = NoAddr /\ WIZ_SKIP_BROADCAST = FALSE /\ iface = TRUE
    /\ bulbHost = 1 /\ network = "unreliable" /\ argv = Argv("chill", NoColor, Absent)
    /\ cmd = "retry"
    /\ pc = "harness"
    /\ InitRest

\* ---- next-state relations ----

SendEvent == SendReply \/ SendGarbage \/ SendTimeout \/ SendError

ProbeEvent ==
    \E h \in Addrs :
        ProbeMatch(h) \/ ProbeWrongMac(h) \/ ProbeGarbage(h) \/ ProbeTimeout(h) \/ ProbeError(h)

NextResolve ==
    \/ ResolveStart \/ RbiAfterProbe \/ RbiAfterDiscover \/ RbiAfterScan \/ CallerExit
    \/ SendEvent
    \/ BcBind \/ BcRetransmit \/ BcTimeout \/ BcError \/ BcMatch \/ BcWrongMac \/ BcGarbage
    \/ GraceTimer \/ InterfaceLost \/ ProbeEvent

NextPreset ==
    \/ CmdStart \/ RbiAfterProbe \/ RbiAfterScan
    \/ CmdAfterPreRead \/ CmdAfterSetPilot \/ CmdAfterVerify \/ CmdFailExit \/ CmdFinishExit
    \/ SendEvent \/ SwrAfterSend \/ SwrSleepDone
    \/ ProbeEvent

NextPresetRace ==
    \/ CmdStart \/ RbiAfterDiscover
    \/ CmdAfterPreRead \/ CmdAfterSetPilot \/ CmdAfterVerify \/ CmdFailExit \/ CmdFinishExit
    \/ SendEvent \/ SwrAfterSend \/ SwrSleepDone
    \/ BcBind \/ BcRetransmit \/ BcTimeout \/ BcError \/ BcMatch \/ BcWrongMac \/ BcGarbage
    \/ GraceTimer \/ InterfaceLost \/ ProbeEvent

NextOnOff ==
    \/ OnOffStart \/ RbiAfterProbe \/ RbiAfterScan
    \/ OnOffAfterResolve \/ OnOffAfterSetPilot \/ OnAfterRead \/ OnOffExit
    \/ SendEvent \/ SwrAfterSend \/ SwrSleepDone
    \/ ProbeEvent

NextRetry == HarnessCall \/ HarnessAfter \/ SendEvent \/ SwrAfterSend \/ SwrSleepDone

AnyEvent ==
    \E h \in Addrs :
        AnyFound(h) \/ AnyNoMac(h) \/ AnyGarbage(h) \/ AnyTimeout(h) \/ AnyError(h)

NextScanAll == ScanAllCall \/ ScanAllAfter \/ AnyEvent

NextScans == NextResolve \/ NextScanAll

NextSend ==
    \/ SendCall \/ SendCallAfter \/ SendEvent
    \/ SendLateMessage \/ SendLateError \/ SendLateCallback

NextRuns == NextResolve \/ NextRun \/ DiscoverSave

NextVerify == VerifyCall

NextArgs == OnCommand \/ OffCommand \/ PresetCommand

SpecResolve == InitResolve /\ [][NextResolve]_vars

SpecPreset == InitPreset /\ [][NextPreset]_vars

SpecPresetRace == InitPresetRace /\ [][NextPresetRace]_vars

SpecOnOff == InitOnOff /\ [][NextOnOff]_vars

SpecRetry == InitRetry /\ [][NextRetry]_vars

SpecScanAll == InitScanAll /\ [][NextScanAll]_vars

SpecScans == InitScans /\ [][NextScans]_vars

SpecSend == InitSend /\ [][NextSend]_vars

SpecRuns == InitResolve /\ [][NextRuns]_vars

SpecVerify == InitVerify /\ [][NextVerify]_vars

SpecArgs == InitArgs /\ [][NextArgs]_vars

\* timers fire and the event loop runs every callback that is due
FairResolve == InitResolve /\ [][NextResolve]_vars /\ WF_vars(NextResolve)

\* ---- properties ----

\* C1: in discoverByMac, once the race has resolved the loser is abandoned: it
\* opens no further socket, none of its sockets is still open, and onProgress is
\* not invoked any more.
C1_LoserAbandoned ==
    settled =>
        /\ ~lateSockets
        /\ ~lateProgress
        /\ bcSock # "open"
        /\ \A h \in Hosts : probe[h] # "pending"

\* C2 as stated: a matching broadcast reply that arrives at any time while the
\* broadcast window is open makes discoverByMac resolve via broadcast with no
\* scan batch issued.
C2_AnyTimeInWindow ==
    bcMatch # "none" =>
        /\ dbmPc = "resolved" /\ dbmIp = bulbHost /\ ~dbmUsedScan
        /\ scanBatches = 0

\* C2 amended: a matching broadcast reply that arrives before the 500 ms grace
\* timer has fired makes discoverByMac resolve via broadcast with that reply's
\* address, and no scan batch is ever issued.
C2_BeforeGraceDelay ==
    bcMatch = "early" =>
        /\ dbmPc = "resolved" /\ dbmIp = bulbHost /\ ~dbmUsedScan
        /\ scanBatches = 0 /\ scanPc = "idle"

C2_Witness ==
    /\ bcMatch = "early" /\ graceTimer = "fired"
    /\ pc = "rbi_returned" /\ ip = bulbHost /\ ~usedSubnetScan

\* C3: when sendWithRetry(retries = n >= 1) throws, it has performed exactly n
\* exchanges and waited RETRY_DELAY_MS exactly n - 1 times, none after the last.
C3_ExactAttempts ==
    /\ swrPc = "thrown" =>
          /\ swrRetries >= 1
          /\ swrSends = swrRetries /\ datagrams = swrRetries
          /\ slept = (swrRetries - 1) * RETRY_DELAY_MS
          /\ swrLastErr \in {"timeout", "malformed", "error"}
    /\ swrPc = "sleep" => swrSends < swrRetries
    /\ swrSends <= swrRetries

C3_Witness ==
    /\ swrPc = "thrown" /\ swrRetries = 3 /\ swrSends = 3
    /\ slept = 2 * RETRY_DELAY_MS /\ swrLastErr = "timeout"

\* the reply of the setPilot exchange is an ack that does not carry success: true
RejectSeen ==
    /\ sendMethod = "setPilot"
    /\ sendRes.kind \in {"ack", "empty"}
    /\ ~(sendRes.kind = "ack" /\ sendRes.success = "true")

C4_Step ==
    RejectSeen =>
        /\ datagrams' = datagrams
        /\ pc' \in {"set_pilot", "fail_sleep", "exited"}
        /\ pc' \in {"fail_sleep", "exited"} => outcome' = "bulb rejected command"
        /\ pc' = "exited" => exitCode' = 1

\* C4: after a setPilot ack whose success flag is false or absent, no further
\* datagram is sent (no retry, no verification), and the preset operation ends
\* in Failed with 'bulb rejected command'.
C4_RejectionNotRetried == [][C4_Step]_vars

C4_Witness ==
    /\ pc = "exited" /\ exitCode = 1 /\ outcome = "bulb rejected command"
    /\ sendMethod = "setPilot" /\ sendRes.kind = "ack" /\ sendRes.success = "false"
    /\ swrSends = 1 /\ ~verified

C5_Step ==
    pc \in {"verify", "finishing"} =>
        /\ pc' \in {"verify", "finishing", "exited"}
        /\ pc' = "exited" => exitCode' = 0
        /\ (pc = "verify" /\ pc' = "finishing") =>
              /\ outcome' \in {"mode active", "sent (unverified)"}
              /\ (swrPc = "thrown" \/ swrResp.kind # "pilot" \/ swrResp.state = FALSE)
                    => (~verified' /\ outcome' = "sent (unverified)")
              /\ (argv = Argv("chill", NoColor, Absent) /\ swrResp.dimming = 55)
                    => (~verified' /\ outcome' = "sent (unverified)")

\* C5: once the setPilot is acked with success (the operation is verifying), it
\* only ever goes on to Done with exit status 0; a verification that threw, or
\* whose reply has no result, or whose snapshot misses the preset (power off;
\* brightness 55 for chill's 40) gives verified = false and 'sent (unverified)'.
C5_VerifyNeverFails == [][C5_Step]_vars

C5_Witness ==
    /\ pc = "exited" /\ exitCode = 0 /\ ~verified /\ outcome = "sent (unverified)"
    /\ sendMethod = "getPilot" /\ swrLastErr = "timeout" /\ swrI = MAX_RETRIES /\ setPilotSends = 1

\* C6: the operation reports verified = true only if the post-command snapshot
\* reports a brightness within 2 of the brightness the command asked for.
C6_VerifiedWithinTolerance ==
    (pc \in {"finishing", "exited"} /\ verified) =>
        /\ snap.dimming >= parseArgs(argv).params.dimming - 2
        /\ snap.dimming <= parseArgs(argv).params.dimming + 2

C7_Frame ==
    (pc = "rbi_probe" /\ cacheProbe' = "valid") =>
        /\ WIZ_IP' = WIZ_IP /\ WIZ_SKIP_BROADCAST' = WIZ_SKIP_BROADCAST
        /\ saveEnvCalls' = saveEnvCalls /\ datagrams' = datagrams

C7_State ==
    cacheProbe = "valid" =>
        /\ pc \in {"rbi_returned", "exited"}
        /\ ip = cachedIp /\ ip # NoAddr /\ ~usedSubnetScan
        /\ datagrams = 1
        /\ dbmPc = "idle" /\ bcSock = "none" /\ bcSent = 0
        /\ scanPc = "idle" /\ scanBatches = 0
        /\ saveEnvCalls = 0 /\ WIZ_IP = cachedIp

\* C7: when the probe of the cached address is answered by the target, the
\* cached address is returned after exactly one datagram, nothing of discovery
\* has run or runs later, and WIZ_IP and WIZ_SKIP_BROADCAST are left as they
\* were, with no saveEnv.
C7_CacheHit == []C7_State /\ [][C7_Frame]_vars

C7_Witness ==
    /\ cacheProbe = "valid" /\ pc = "rbi_returned" /\ ip = cachedIp /\ datagrams = 1
    /\ ~WIZ_SKIP_BROADCAST

\* C8: after a probe of the cached address that was not answered by the target
\* (other identifier, no result, timeout, malformed, socket error) the address
\* returned is the one a discovery found, the probe's failure is not the error
\* reported, and with an interface present a discovery is run.
C8_CacheMiss ==
    cacheProbe \in {"mismatch", "empty", "timeout", "malformed", "error"} =>
        /\ ip # NoAddr =>
              \/ dbmPc = "resolved" /\ ip = dbmIp /\ usedSubnetScan = dbmUsedScan
              \/ scanOwner = "rbi" /\ scanPc = "found" /\ ip = scanRes /\ usedSubnetScan
        /\ ip # NoAddr => ip = bulbHost
        /\ outcome \in {"none", "no network interface found", "bulb not found on network"}
        /\ outcome # "no network interface found" => (dbmPc # "idle" \/ scanPc # "idle")
        /\ datagrams = 1

C8_Witness ==
    /\ cacheProbe = "mismatch" /\ pc = "rbi_returned"
    /\ ip = bulbHost /\ ip # cachedIp /\ WIZ_IP = ip /\ saveEnvCalls = 1

\* C9: with broadcast replies suppressed and the bulb answering unicast probes,
\* a resolution that goes through discoverByMac eventually returns the bulb's
\* address with usedSubnetScan = true and WIZ_SKIP_BROADCAST persisted (as long
\* as the machine keeps its interface).
C9_ScanFallback ==
    (pc = "rbi_discover" /\ network = "broadcastSuppressed" /\ bulbHost # NoAddr)
        ~> \/ ~iface
           \/ /\ pc = "rbi_returned" /\ ip = bulbHost /\ usedSubnetScan
              /\ dbmPc = "resolved" /\ dbmIp = bulbHost /\ dbmUsedScan
              /\ WIZ_SKIP_BROADCAST /\ WIZ_IP = bulbHost

C9_Witness ==
    /\ network = "broadcastSuppressed" /\ iface
    /\ pc = "rbi_returned" /\ ip = bulbHost /\ usedSubnetScan /\ WIZ_SKIP_BROADCAST
    /\ scanS > 1 /\ saveEnvCalls = 1

\* C10: discoverByMac rejects only with exactly two failures observed, one of
\* the broadcast and one of the scan; the counter never exceeds 2, and a
\* discovery that has resolved is never rejected.
C10_TwoFailures ==
    /\ failures <= 2
    /\ rejectCalls <= 1
    /\ rejectCalls = 1 <=> failures = 2
    /\ dbmPc = "rejected" <=> failures = 2
    /\ failures = 2 =>
          /\ ~settled
          /\ bcDone /\ bcSock = "closed"
          /\ scanOwner = "dbm" /\ scanPc \in {"notfound", "nonetwork"}

C10_Witness ==
    /\ dbmPc = "rejected" /\ failures = 2 /\ rejectCalls = 1 /\ scanPc = "notfound"
    /\ pc = "rbi_thrown" /\ outcome = "bulb not found on network"

\* C11: every setPilot command built that carries a color field (r, g or b)
\* carries all three together with w = 0 and c = 0 and carries no temp field,
\* whatever the preset name, hex color and brightness on the command line.
C11_ColorZeroesWhite ==
    \A i \in 1..Len(payload) :
        (payload[i].r # Absent \/ payload[i].g # Absent \/ payload[i].b # Absent) =>
            /\ payload[i].r \in 0..255 /\ payload[i].g \in 0..255 /\ payload[i].b \in 0..255
            /\ payload[i].w = 0 /\ payload[i].c = 0
            /\ payload[i].temp = Absent

C11_Witness ==
    /\ pc = "args_done" /\ argv.hexColor = << 15, 15, 6, 11, 3, 5 >> /\ argv.brightness = 40
    /\ payload = << Params(TRUE, 40, Absent, 255, 107, 53, 0, 0) >>

\* C12: every setPilot command built in color mode (carrying r/g/b) has
\* dimming at least 10, and every command built in temperature mode has dimming
\* at least 1, for every accepted brightness argument.
C12_MinimumBrightness ==
    \A i \in 1..Len(payload) :
        /\ payload[i].r # Absent => payload[i].dimming >= 10
        /\ payload[i].temp # Absent => payload[i].dimming >= 1

\* C13: the power-off command sets state false and carries no dimming field; no
\* command built (on, off, preset, override, custom) carries dimming 0: a
\* dimming field is always within 1..100, and a brightness argument outside
\* 1..100 ends the process with status 1 before any command is built.
C13_NeverBrightnessZero ==
    /\ \A i \in 1..Len(payload) :
          /\ payload[i].dimming # 0
          /\ payload[i].dimming = Absent \/ payload[i].dimming \in 1..100
    /\ (cmd = "off" /\ pc = "args_done") =>
          /\ Len(payload) = 1
          /\ payload[1].state = FALSE /\ payload[1].dimming = Absent
    /\ (cmd = "preset" /\ pc = "args_done") => argv.brightness \in {Absent} \cup (1..100)
    /\ (pc # "args" /\ argv.brightness \notin {Absent} \cup (1..100)) =>
          /\ pc = "exited" /\ exitCode = 1 /\ payload = NoPayload

C13_Witness ==
    /\ cmd = "off" /\ pc = "args_done"
    /\ payload = << Params(FALSE, Absent, Absent, Absent, Absent, Absent, Absent, Absent) >>

\* probe sockets that are open: sent and not yet settled
Outstanding == { h \in Addrs : probe[h] = "pending" }

C14_State ==
    /\ Cardinality(Outstanding) <= BatchSize
    /\ Outstanding \subseteq BatchHosts(scanS)

C14_Step ==
    scanBatches' # scanBatches =>
        /\ Cardinality(Outstanding) <= 1
        /\ \A h \in Outstanding : probe'[h] # "pending"
        /\ Outstanding' = BatchHosts(scanS')

\* C14: during a subnet scan (discoverBySubnetScan and discoverAllSubnetScan)
\* at most SUBNET_BATCH_SIZE probe sockets are outstanding at any moment, all of
\* the current batch: a batch is issued only by the step in which the last
\* outstanding probe of the previous batch settles.
C14_BatchBound == []C14_State /\ [][C14_Step]_vars

C14_Witness ==
    /\ scanOwner = "all" /\ scanPc = "running" /\ scanS > 1
    /\ Cardinality(Outstanding) = BatchSize
    /\ found["target"] # NoAddr

C15_Step ==
    (scanOwner \in {"dbm", "rbi"} /\ \E h \in Addrs : probe[h] = "hit") =>
        /\ scanBatches' = scanBatches
        /\ \A h \in Addrs : probe[h] # "pending" => probe'[h] # "pending"

C15_State ==
    (scanOwner \in {"dbm", "rbi"} /\ scanPc = "found") =>
        /\ probe[scanRes] = "hit" /\ scanRes = bulbHost
        /\ scanRes \in BatchHosts(scanS)
        /\ \A h \in Addrs : h >= scanS + BatchSize => probe[h] = "unsent"

\* C15: in discoverBySubnetScan, once a probe has received a reply naming the
\* target, no probe of a later batch is ever sent (hosts of later batches stay
\* unprobed), and the scan returns the address of the host whose reply matched.
C15_StopsAtMatch == []C15_State /\ [][C15_Step]_vars

C15_Witness ==
    /\ scanOwner = "rbi" /\ scanPc = "found" /\ scanRes = bulbHost /\ scanS = 1
    /\ scanBatches = 1 /\ probe[LastHost] = "unsent"
    /\ pc = "rbi_returned" /\ ip = bulbHost

\* the loop bounds of the program: batches of 50, 50, 50, 50, 50 and 4 that
\* cover base.1 .. base.254 once each
C16_Batches ==
    LET starts == LoopStarts(SUBNET_BATCH_SIZE, 255)
    IN  /\ starts = {1, 51, 101, 151, 201, 251}
        /\ \A s \in starts :
              Cardinality(BatchRange(s, SUBNET_BATCH_SIZE, 255)) = IF s = 251 THEN 4 ELSE 50
        /\ UNION { BatchRange(s, SUBNET_BATCH_SIZE, 255) : s \in starts } = 1..254
        /\ \A s \in starts, t \in starts :
              s # t => BatchRange(s, SUBNET_BATCH_SIZE, 255) \cap BatchRange(t, SUBNET_BATCH_SIZE, 255) = {}

C16_Step ==
    scanOwner' \in {"dbm", "rbi"} =>
        \A h \in Addrs :
            (probe'[h] = "pending" /\ probe[h] # "pending") => (h \in Hosts /\ probe[h] = "unsent")

C16_State ==
    scanOwner \in {"dbm", "rbi"} =>
        /\ probe[0] = "unsent" /\ probe[LastHost + 1] = "unsent"
        /\ scanPc = "notfound" =>
              /\ \A h \in Hosts : probe[h] = "null"
              /\ scanBatches = Cardinality(LoopStarts(BatchSize, LastHost + 1))
        /\ (\A h \in Hosts : probe[h] = "null") => scanPc = "notfound"
        /\ (scanPc = "running" /\ \A h \in Hosts : probe[h] # "hit") =>
              \A h \in Hosts : h < scanS => probe[h] = "null"

\* C16: when no probed host replies with the target identifier,
\* discoverBySubnetScan probes each host address base.1 .. base.254 exactly
\* once, never base.0 or base.255, in batches of 50, 50, 50, 50, 50 and 4, and
\* yields NotFound once all have settled; a timeout, a socket error, an
\* unparsable reply or a reply with another identifier counts as no match and
\* leaves the scan running.
C16_Exhaustive == [](C16_Batches /\ C16_State) /\ [][C16_Step]_vars

C16_Witness ==
    /\ scanOwner = "rbi" /\ scanPc = "notfound" /\ bulbHost # NoAddr
    /\ \A h \in Hosts : probe[h] = "null"
    /\ scanS = LastHost /\ scanBatches = 3
    /\ pc = "rbi_thrown" /\ outcome = "bulb not found on network"

C17_Step ==
    progressArg' # progressArg =>
        progressArg' = Cardinality({ h \in Addrs : probe'[h] \in {"hit", "null"} })

\* C17: each progress report of the subnet scan gives the number of host
\* addresses already processed: the number passed to onProgress equals the
\* count of probes that have settled when the report is made.
C17_ProgressIsProcessedCount == [][C17_Step]_vars

C18_State ==
    /\ bcSent <= 2
    /\ bcSent >= 1 => bcBound
    /\ bcSent = 2 => reTimer = "fired"
    /\ bcTimer = "fired" =>
          /\ bcDone /\ bcSock = "closed" /\ bcMatch = "none"
          /\ failures >= 1

C18_Step ==
    /\ bcDone => bcSent' = bcSent
    /\ (bcBound /\ (bcMatch # "none" \/ reTimer # "pending")) => bcSent' = bcSent
    /\ (bcTimer = "pending" /\ bcTimer' = "fired" /\ ~bcDone) =>
          /\ bcDone' /\ bcSock' = "closed" /\ failures' = failures + 1

\* C18: one run of discoverByBroadcast sends at most two probes, one when the
\* socket is bound and one when the 1-second timer fires, the second only if
\* nothing has settled by then; when the 3-second timer fires with no matching
\* reply received the run fails, and nothing is sent once it has settled.
C18_AtMostTwoProbes == []C18_State /\ [][C18_Step]_vars

C18_Witness ==
    /\ bcSent = 2 /\ reTimer = "fired" /\ bcTimer = "fired"
    /\ bcDone /\ bcSock = "closed" /\ failures >= 1

C19_Step ==
    /\ bcIgnored' # bcIgnored =>
          /\ ~bcDone' /\ bcSock' = "open" /\ bcTimer' = bcTimer
          /\ dbmPc' = dbmPc /\ failures' = failures /\ settled' = settled
    /\ (bcIgnored > 0 /\ bcMatch' # bcMatch) =>
          /\ bcDone' /\ bcSock' = "closed"
          /\ dbmPc' = "resolved"
          /\ ~settled => (dbmIp' = bulbHost /\ ~dbmUsedScan')

\* C19: in discoverByBroadcast a reply that names another identifier, or that
\* cannot be parsed, settles nothing: the socket stays open and the timer runs
\* on; a later reply in the window that names the target still resolves the
\* discovery with the bulb's address, after any number of discarded replies.
C19_MismatchDiscarded == [][C19_Step]_vars

C19_Witness ==
    /\ bcIgnored = MaxIgnored /\ bcMatch = "early"
    /\ dbmPc = "resolved" /\ dbmIp = bulbHost /\ ~dbmUsedScan
    /\ pc = "rbi_returned" /\ ip = bulbHost

C20_State ==
    /\ sendRun.sock = "none" => datagrams = 0
    /\ sendRun.sock # "none" => (sendRun.sent = 1 /\ datagrams = 1)
    /\ sendRun.closes <= 1 /\ sendRun.settles <= 1
    /\ sendRun.done <=> sendRun.sock = "closed"
    /\ sendRun.done <=> sendRun.closes = 1
    /\ sendRun.done <=> sendRun.settles = 1
    /\ sendRun.done => sendRun.timer \in {"cleared", "fired"}
    /\ sendRun.sock = "open" => (sendRun.timer = "pending" /\ sendPc = "inflight")
    /\ sendRun.done =>
          \/ sendErr = "none" /\ sendRes # NoReply /\ sendRun.timer = "cleared"
          \/ sendErr = "timeout" /\ sendRes = NoReply /\ sendRun.timer = "fired"
          \/ sendErr \in {"malformed", "error"} /\ sendRes = NoReply /\ sendRun.timer = "cleared"
    /\ pc = "send_done" =>
          /\ sendRun.done
          /\ outcome = IF sendErr = "none" THEN "response" ELSE sendErr

C20_Step ==
    sendRun.done =>
        /\ sendRes' = sendRes /\ sendErr' = sendErr /\ datagrams' = datagrams
        /\ sendRun' = [sendRun EXCEPT !.late = sendRun'.late]
        /\ pc = "send_done" => (pc' = pc /\ outcome' = outcome)

\* C20: every call of send sends exactly one datagram, settles exactly once
\* with exactly one of parsed response, timeout, malformed response or socket
\* error, and closes its socket exactly once on whichever path it settles; of
\* the timer, a reply, a socket error and the send callback the first to
\* happen decides the outcome, and an event that comes later changes nothing.
C20_FirstEventDecides == []C20_State /\ [][C20_Step]_vars

C20_Witness ==
    /\ pc = "send_done" /\ outcome = "timeout" /\ sendRun.timer = "fired"
    /\ sendRun.late = MaxLate /\ sendRun.closes = 1 /\ sendRun.settles = 1 /\ datagrams = 1


\* ---- C21 ----
\* C21: when requireBulbIp finds no external IPv4 interface and the cached
\* address is absent or was not validated, it fails at once with 'no network
\* interface found' (never 'bulb not found on network'), without having started
\* the broadcast or sent a single scan probe; the only datagram it may have sent
\* is the probe of the cached address.
C21_Step ==
    (/\ ~iface
     /\ pc \in {"start", "rbi_probe"}
     /\ pc' \notin {pc, "rbi_probe", "rbi_returned"})
    => /\ pc' = "rbi_thrown"
       /\ outcome' = "no network interface found"

C21_State ==
    outcome = "no network interface found"
          => /\ ~iface /\ dbmPc = "idle" /\ scanPc = "idle" /\ bcSock = "none"
             /\ bcSent = 0 /\ scanBatches = 0 /\ progressCalls = 0
             /\ \A h \in Addrs : probe[h] = "unsent"
             /\ datagrams = (IF cachedIp = NoAddr THEN 0 ELSE 1)
             /\ cacheProbe # "valid"

C21_NoInterfaceFailsAtOnce == []C21_State /\ [][C21_Step]_vars

\* the cached address timed out and there is no interface
C21_Witness ==
    /\ pc = "rbi_thrown" /\ ~iface /\ cachedIp # NoAddr /\ cacheProbe = "timeout"
    /\ outcome = "no network interface found" /\ datagrams = 1


\* ---- C22 ----
\* the operation, once begun, has ended otherwise than by its success exit
Failed ==
    \/ pc = "fail_sleep"
    \/ pc = "exited" /\ exitCode = 1 /\ outcome # "usage"

\* C22: the preset operation ends in failure only for one of four causes: no
\* network interface, discovery exhausted without locating the device, every
\* attempt of the setPilot command failed, or the device's acknowledgement
\* refused the command; a failed state pre-read is none of them (the setPilot
\* command is still sent after it).
C22_Step ==
    (pc = "pre_read" /\ pc' # pc) => pc' = "set_pilot" /\ setPilotSends' = setPilotSends + 1

C22_State ==
    Failed =>
        \/ outcome = "no network interface found" /\ ~iface
        \/ outcome = "bulb not found on network" /\ ip = NoAddr
        \/ outcome = "failed" /\ swrLastErr # "none" /\ setPilotSends = MAX_RETRIES
        \/ outcome = "bulb rejected command" /\ swrResp.kind \in {"ack", "empty"}

C22_FailedOnlyFromListedCauses == []C22_State /\ [][C22_Step]_vars


\* ---- C23 ----
\* an acknowledgement of the setPilot that does not carry success: true
Refused(r) == r.kind \in {"ack", "empty"} /\ ~(r.kind = "ack" /\ r.success = "true")

\* C23: for on and off (as for a preset), when the acknowledgement of the
\* setPilot command has its success indicator false or absent, the operation
\* ends with a device-refused outcome and never reports 'light on' or
\* 'light off'.
C23_Step ==
    (/\ pc = "on_off_set" /\ swrPc = "returned" /\ Refused(swrResp)
     /\ pc' # pc)
    => /\ outcome' = "bulb rejected command"
       /\ pc' \notin {"on_read", "on_off_done"}

C23_State ==
    (outcome \in {"light on", "light off"}) => ~Refused(swrResp)

C23_RefusalIsReported == []C23_State /\ [][C23_Step]_vars


\* ---- C24 ----
\* C24: when requireBulbIp returns an address, the in-process WIZ_IP equals it,
\* and saveEnv was called in that resolution exactly when the address differs
\* from the one cached at entry or the skip-broadcast hint went from unset to
\* set; it is called at most once.
C24_Step ==
    (pc' = "rbi_returned" /\ pc # "rbi_returned")
    => /\ WIZ_IP' = ip' /\ ip' # NoAddr
       /\ saveEnvCalls' \in {saveEnvCalls, saveEnvCalls + 1}
       /\ (saveEnvCalls' = saveEnvCalls + 1)
            <=> (ip' # WIZ_IP \/ (WIZ_SKIP_BROADCAST' /\ ~WIZ_SKIP_BROADCAST))

C24_State ==
    /\ pc = "rbi_returned" => WIZ_IP = ip /\ saveEnvCalls <= 1
    /\ pc \in {"start", "rbi_probe", "rbi_discover", "rbi_scan", "rbi_thrown"} => saveEnvCalls = 0

C24_CacheFollowsResolution == []C24_State /\ [][C24_Step]_vars

\* the cached address did not answer in time, discovery found the bulb at that
\* same address and the hint was not newly set: nothing is written
C24_Witness ==
    /\ pc = "rbi_returned" /\ cacheProbe = "timeout" /\ ip = cachedIp /\ WIZ_IP = ip
    /\ saveEnvCalls = 0


\* ---- C25 ----
\* C25: in the enumeration by subnet scan, whatever the order in which the
\* probes of a batch complete, every identifier carried by the reply of at
\* least one probed host has an entry in the map, the address of that entry is
\* a host that replied with that identifier, and an entry once made is never
\* removed.
C25_State ==
    scanOwner = "all" =>
        \A m \in Macs :
            /\ (\E h \in Hosts : probe[h] = "hit" /\ MacAt(h) = m) => found[m] # NoAddr
            /\ found[m] # NoAddr
                 => found[m] \in Hosts /\ probe[found[m]] = "hit" /\ MacAt(found[m]) = m

C25_Step ==
    scanOwner = "all" => \A m \in Macs : found[m] # NoAddr => found'[m] # NoAddr

C25_NoReplyLost == []C25_State /\ [][C25_Step]_vars

\* the scan is over, both identifiers are in the map, and of two hosts of one
\* batch that carry the same identifier the later one completed first
C25_Witness ==
    /\ pc = "scanall_done" /\ scanPc = "done"
    /\ found["target"] # NoAddr /\ found["other"] # NoAddr
    /\ \E h \in Hosts :
         /\ h > found["other"] /\ probe[h] = "hit" /\ MacAt(h) = "other"
         /\ (h - 1) \div BatchSize = (found["other"] - 1) \div BatchSize


\* ---- C26 ----
\* no batch issued, no probe socket opened, no progress callback made
NoScanYet ==
    /\ scanPc = "idle" /\ scanBatches = 0 /\ progressCalls = 0
    /\ \A h \in Addrs : probe[h] = "unsent"

\* C26: in the combined discovery the broadcast is started at once, and no scan
\* probe is sent while the 500 ms grace timer has not fired; when the broadcast
\* has matched by the time the timer fires, the scan is never started and the
\* 'scanning subnet...' callback is never invoked.
C26_State ==
    /\ dbmPc # "idle" => bcSock # "none"
    /\ graceTimer = "pending" => dbmPc # "idle" /\ NoScanYet
    /\ bcMatch = "early" => NoScanYet

C26_Step ==
    (graceTimer = "pending" /\ graceTimer' = "fired" /\ ~settled)
        => progressCalls' >= 1 /\ scanOwner' = "dbm"

C26_ScanWaitsForGraceDelay == []C26_State /\ [][C26_Step]_vars

\* the broadcast matched within the grace delay, the timer has fired since and
\* the resolution is over
C26_Witness ==
    /\ bcMatch = "early" /\ graceTimer = "fired" /\ bcSent >= 1
    /\ dbmPc = "resolved" /\ ~dbmUsedScan /\ pc = "exited"


\* ---- C27 ----
\* C27: when every attempt of sendWithRetry fails, the error its caller gets is
\* the error of the final attempt (a timeout, a reply that does not parse, or a
\* socket error); the errors of the earlier attempts are surfaced to nobody.
C27_Step ==
    /\ (swrPc = "awaitSend" /\ swrPc' = "thrown")
          => sendPc = "rejected" /\ swrLastErr' = sendErr /\ swrSends = swrRetries
    /\ (swrPc = "awaitSend" /\ swrPc' = "sleep")
          => pc' = pc /\ outcome' = outcome /\ swrSends < swrRetries

C27_State ==
    (pc = "harness_done" /\ swrPc = "thrown")
        => /\ outcome = sendErr
           /\ outcome \in {"timeout", "malformed", "error"}
           /\ datagrams = swrRetries

C27_LastErrorSurfaced == []C27_State /\ [][C27_Step]_vars

\* three attempts failed and the caller holds the error of the third
C27_Witness ==
    /\ pc = "harness_done" /\ swrPc = "thrown" /\ swrRetries = 3 /\ datagrams = 3
    /\ sendErr = "malformed" /\ outcome = "malformed"


\* ---- C29 ----
\* C29: sendWithRetry stops at the first exchange that succeeds: when that is
\* exchange k it has made exactly k exchanges (k - 1 delays), returns the
\* response of exchange k, and sends no datagram and waits no delay afterwards.
C29_Step ==
    /\ (swrPc = "awaitSend" /\ sendOwner = "swr" /\ sendPc = "resolved" /\ swrPc' # swrPc)
          => /\ swrPc' = "returned" /\ swrResp' = sendRes
             /\ datagrams' = datagrams /\ slept' = slept
    /\ (swrPc = "returned" /\ cmd = "retry")
          => datagrams' = datagrams /\ slept' = slept /\ swrResp' = swrResp

C29_State ==
    swrPc = "returned"
        => /\ swrSends = swrI + 1 /\ swrSends <= swrRetries
           /\ slept = (swrSends - 1) * RETRY_DELAY_MS
           /\ swrResp = sendRes /\ swrResp # NoReply
           /\ cmd = "retry" => datagrams = swrSends
           /\ pc = "harness_done" => outcome = "response"

C29_StopsAtFirstSuccess == []C29_State /\ [][C29_Step]_vars

\* four attempts allowed, the second exchange answered: two datagrams, one delay
C29_Witness ==
    /\ pc = "harness_done" /\ swrPc = "returned" /\ swrRetries = 4
    /\ swrSends = 2 /\ datagrams = 2 /\ slept = RETRY_DELAY_MS /\ outcome = "response"


\* ---- C28 ----
\* the datagrams of every kind sent so far: exchanges, broadcasts, scan probes
Sent == << datagrams, bcSent, { h \in Addrs : probe[h] # "unsent" }, scanBatches >>

\* C28: a preset operation goes Idle, Resolving, Sending, Verifying, then Done
\* or Failed: no setPilot datagram before the address is resolved, the
\* verification getPilot only after a setPilot acknowledged with success: true,
\* and once the operation has failed it sends no further datagram.
C28_Step ==
    /\ (setPilotSends' > setPilotSends) => ip' # NoAddr /\ pc' = "set_pilot"
    /\ (pc' = "verify" /\ pc # "verify")
          => /\ pc = "set_pilot" /\ swrPc = "returned"
             /\ swrResp.kind = "ack" /\ swrResp.success = "true"
    /\ pc = "fail_sleep" => Sent' = Sent

C28_State ==
    /\ pc \in {"start", "rbi_probe", "rbi_discover", "rbi_scan"} => setPilotSends = 0 /\ ip = NoAddr
    /\ pc = "pre_read" => setPilotSends = 0 /\ ip # NoAddr

C28_OrderOfTheOperation == []C28_State /\ [][C28_Step]_vars


\* ---- C30 ----
\* C30: for a preset invoked with a brightness override b, a device that after
\* the command reports exactly what was asked of it (on, brightness b, the
\* preset's colour temperature) is reported as verified.
C30_OverrideVerified ==
    (/\ pc \in {"finishing", "exited"} /\ exitCode # 1
     /\ argv.modeName # "none" /\ argv.brightness # Absent
     /\ snap.kind = "pilot" /\ snap.state = TRUE
     /\ snap.dimming = argv.brightness
     /\ snap.temp = MODES(argv.modeName).temp)
    => verified


\* ---- C31 ----
\* the brightness a built-in preset asks for, and its colour temperature
Within2(m, s) ==
    /\ s.dimming # Absent
    /\ s.dimming >= MODES(m).dimming - 2 /\ s.dimming <= MODES(m).dimming + 2

\* C31 as stated: for movie, chill and day without override, the verify closure
\* accepts a snapshot only if power is on, the temperature is the preset's
\* exactly, and the brightness is within 2 of the preset's.
C31_AcceptsOnlyWithinTolerance ==
    (pc = "verify_done" /\ verified)
        => /\ snap.state = TRUE
           /\ snap.temp = MODES(argv.modeName).temp
           /\ Within2(argv.modeName, snap)

\* C31 amended: the same, for snapshots whose brightness lies on the percent
\* scale 0..100.
C31_AcceptsOnlyWithinToleranceOnScale ==
    (pc = "verify_done" /\ verified /\ snap.dimming \in 0..100)
        => /\ snap.state = TRUE
           /\ snap.temp = MODES(argv.modeName).temp
           /\ Within2(argv.modeName, snap)

\* day's closure has accepted a snapshot at the lower edge of its tolerance
C31_Witness ==
    /\ pc = "verify_done" /\ verified /\ argv.modeName = "day"
    /\ snap.state = TRUE /\ snap.dimming = 98 /\ snap.temp = 5000


\* ---- C32 ----
\* address a answered, within this operation, with a reply naming the target:
\* as the cached address to its getPilot probe, to the broadcast, or to its
\* scan probe
AnsweredAsTarget(a) ==
    \/ cacheProbe = "valid" /\ a = cachedIp
    \/ bcMatch # "none" /\ a = bulbHost
    \/ a \in Hosts /\ probe[a] = "hit" /\ MacAt(a) = "target"

\* C32: a setPilot datagram goes only to an address that answered earlier in
\* the same operation with a reply naming exactly the target: the cached
\* address validated by its probe, or the address discovery returned; never
\* to a cached address that was not validated.
C32_Step ==
    (datagrams' = datagrams + 1 /\ sendMethod' = "setPilot")
        => /\ sendTo' # NoAddr /\ sendTo' = ip
           /\ AnsweredAsTarget(sendTo')
           /\ MacAt(sendTo') = "target"

C32_State ==
    setPilotSends > 0
        => /\ AnsweredAsTarget(ip)
           /\ (sendMethod = "setPilot" => sendTo = ip)
           /\ (cachedIp # NoAddr /\ cacheProbe # "valid" /\ ~AnsweredAsTarget(cachedIp))
                 => ip # cachedIp

C33_Step ==
    /\ (WIZ_SKIP_BROADCAST /\ ~WIZ_SKIP_BROADCAST')
          => pc = "exited" /\ pc' = "exited" /\ outcome' = "saved"
    /\ (WIZ_SKIP_BROADCAST /\ pc \in {"start", "rbi_probe"} /\ pc' \notin {"start", "rbi_probe"})
          => /\ pc' \in {"rbi_returned", "rbi_scan", "rbi_thrown"}
             /\ pc' = "rbi_returned" => cacheProbe' = "valid"
             /\ pc' = "rbi_scan" => scanOwner' = "rbi" /\ scanBatches' = 1
             /\ pc' = "rbi_thrown" => ~iface
             /\ dbmPc' = "idle" /\ bcSock' = "none" /\ bcSent' = 0
    /\ (pc = "rbi_scan" /\ pc' # pc)
          => /\ pc' \in {"rbi_returned", "rbi_thrown"}
             /\ dbmPc' = "idle" /\ bcSock' = "none" /\ bcSent' = 0

C33_State ==
    (scanOwner = "rbi" /\ outcome # "saved")
        => /\ WIZ_SKIP_BROADCAST
           /\ dbmPc = "idle" /\ bcSock = "none" /\ bcSent = 0 /\ graceTimer = "unset"

C33_HintIsKept == []C33_State /\ [][C33_Step]_vars

\* an earlier invocation found the bulb by scan and saved its address and the
\* hint; in this one neither that address nor the scan got an answer: it
\* failed without a broadcast, and the hint is still set
C33_Witness ==
    /\ WIZ_IP > 2 /\ WIZ_SKIP_BROADCAST /\ cachedIp = WIZ_IP /\ cacheProbe = "timeout"
    /\ pc = "rbi_thrown" /\ outcome = "bulb not found on network"
    /\ scanOwner = "rbi" /\ scanPc = "notfound" /\ bcSent = 0 /\ bcSock = "none"


\* ---- C34 ----
\* C34: when discoverByMac reports not found, the broadcast has ended without a
\* matching reply (its 3 s timeout fired or its socket failed) and the scan has
\* probed every host address without a match, or found no interface; it is
\* never reported while either strategy is still in progress.
C34_State ==
    dbmPc = "rejected"
        => /\ bcDone /\ bcSock = "closed" /\ bcMatch = "none" /\ bcTimer # "pending"
           /\ graceTimer = "fired" /\ scanOwner = "dbm"
           /\ \/ scanPc = "nonetwork" /\ ~iface
              \/ scanPc = "notfound" /\ \A h \in Hosts : probe[h] = "null"
           /\ ~settled /\ dbmIp = NoAddr

C34_Step ==
    (dbmPc = "running" /\ dbmPc' = "rejected")
        => \/ bcDone /\ scanPc' \in {"notfound", "nonetwork"}
           \/ scanPc \in {"notfound", "nonetwork"} /\ bcDone' /\ ~bcDone

C34_NotFoundMeansBothExhausted == []C34_State /\ [][C34_Step]_vars

\* the bulb is on the network but every packet was lost: two broadcasts, a
\* complete scan, then not found
C34_Witness ==
    /\ dbmPc = "rejected" /\ bulbHost # NoAddr /\ bcSent = 2 /\ bcTimer = "fired"
    /\ scanPc = "notfound" /\ scanBatches = Cardinality(LoopStarts(BatchSize, LastHost + 1))
    /\ pc = "rbi_thrown"


\* ---- C35 ----
\* C35: as long as timers fire, every call of discoverByMac settles, whatever
\* is lost, garbled, mismatched or failing; in particular when the broadcast
\* fails before the 500 ms grace timer, the scan is still started and the
\* discovery comes to an outcome.
C35_EventuallySettles ==
    /\ (dbmPc = "running") ~> (dbmPc \in {"resolved", "rejected"})
    /\ (dbmPc = "running" /\ bcDone /\ failures = 1 /\ graceTimer = "pending")
          ~> (graceTimer = "fired" /\ scanOwner = "dbm" /\ dbmPc \in {"resolved", "rejected"})

\* the broadcast socket failed before its first send; the scan was started all
\* the same and found the bulb
C35_Witness ==
    /\ bcDone /\ bcSent = 0 /\ bcTimer = "cleared" /\ failures = 1 /\ bcMatch = "none"
    /\ graceTimer = "fired" /\ scanOwner = "dbm" /\ scanPc = "found"
    /\ dbmPc = "resolved" /\ dbmUsedScan /\ dbmIp = bulbHost


\* ---- C36 ----
\* C36: discoverByMac settles at most once, and its result carries the method
\* of the strategy whose match was seen first: usedSubnetScan is true exactly
\* when the scan's match came before any match of the broadcast; a later match
\* of the other strategy changes neither the address, nor the method, nor
\* what was persisted.
C36_Step ==
    /\ (dbmPc \in {"resolved", "rejected"})
          => dbmPc' = dbmPc /\ dbmIp' = dbmIp /\ dbmUsedScan' = dbmUsedScan
             /\ settled' = settled /\ rejectCalls' = rejectCalls
    /\ (dbmPc = "running" /\ dbmPc' = "resolved")
          => /\ bcMatch = "none" /\ scanPc # "found"
             /\ dbmUsedScan' <=> (scanPc' = "found" /\ bcMatch' = "none")
             /\ ~dbmUsedScan' <=> (bcMatch' # "none" /\ scanPc' # "found")
             /\ dbmIp' = bulbHost
    /\ (pc = "rbi_returned")
          => /\ ip' = ip /\ usedSubnetScan' = usedSubnetScan
             /\ WIZ_IP' = WIZ_IP /\ WIZ_SKIP_BROADCAST' = WIZ_SKIP_BROADCAST
             /\ saveEnvCalls' = saveEnvCalls

C36_State ==
    /\ rejectCalls <= 1
    /\ dbmPc = "resolved" => settled /\ dbmIp = bulbHost
    /\ (pc = "rbi_returned" /\ dbmPc = "resolved")
          => ip = dbmIp /\ usedSubnetScan = dbmUsedScan

C36_FirstMatchWins == []C36_State /\ [][C36_Step]_vars

\* the scan matched first and the resolution returned by scan; the broadcast
\* matched afterwards, and the result is still the scan's
C36_Witness ==
    /\ scanPc = "found" /\ bcMatch = "late" /\ bcDone
    /\ dbmPc = "resolved" /\ dbmUsedScan /\ dbmIp = bulbHost
    /\ pc = "rbi_returned" /\ usedSubnetScan /\ ip = bulbHost /\ WIZ_SKIP_BROADCAST

====
